---- MODULE Spec2Model ----
(***************************************************************************)
(* ShotMove, frontend creation session (DramaPage.tsx) with its timeline   *)
(* editor (TimelineEditor/index.tsx) and the API client (api.ts).          *)
(*                                                                         *)
(* Conventions                                                             *)
(*  - JavaScript arrays are TLA+ sequences; a JavaScript position i        *)
(*    (0-based) is element i+1 of the sequence.  Segment indices, shot     *)
(*    positions and timeline orders keep the 0-based values of the code.   *)
(*  - A URI is a natural number: 0 is the empty string, a positive number  *)
(*    names the video it points to (see UriOfShot / RegenUriOfShot).       *)
(*  - A value that can be null/undefined in the code is a record with an   *)
(*    isNull flag, so that null and an empty array stay different.         *)
(*  - Every await is a pair of actions: the handler up to the await, and   *)
(*    the continuation that runs when the response arrives.  Values the    *)
(*    continuation reads from the closure are stored with the request.     *)
(***************************************************************************)
EXTENDS Integers, Sequences, FiniteSets, TLC

\* ---------------------------------------------------------------- bounds
MaxShots == 3
MaxSubmits == 2
MaxPolls == 2
MaxUploads == 1
MaxSessions == 2
MaxCharacters == 2

\* ------------------------------------------------------ program constants
DefaultDurationSec == 4

\* volumes are kept in percent: 0.6 is 60
BgmVolume == 60

VoiceoverVolume == 100

UserMusicVolume == 60

VARIABLES
  contentResult,              \* [isNull, storyboard]
  videoResult,                \* [isNull, task_ids, download_urls, merged_download_url, bgm_download_url]
  storyboardOverride,         \* [isNull, list]
  segmentUrls,                \* sequence of URIs
  timelineOrder,              \* [isNull, v]
  step1Status, step2Status,   \* "pending" | "running" | "done"
  regeneratingShotIndex,      \* -1 for null, else a 0-based position
  concatInProgress,
  concatAfterKlingInProgress,
  klingStatusItems,           \* [isNull, items]
  error,                      \* "none" or the kind of the message shown
  submitCount,                \* number of handleSubmit calls so far
  fetchContentReq,            \* BOOLEAN: fetchContent awaiting its response
  getTaskReq,                 \* BOOLEAN: getTask(taskIdFromUrl) awaiting its response
  fetchVideoReq,              \* [active, storyboard, characterReferences]
  regenerateShotReq,          \* [active, shotIndex, uid, closureUrls, characterReferences]
  concatFromSegmentsReq,      \* [active, segment_urls, storyboard, srcIdx, closureVideo, urls]
  concatAfterKlingReq,        \* [active, task_ids, storyboard]
  pollReqs,                   \* set of [items, all_succeed, cancelled]: getKlingTaskStatus calls in flight
  jobStatus,                  \* provider side: task id -> status
  uploadedVideoClips,         \* clips dropped on the video track with segmentIndex -1
  protagonists,               \* dataUrl of each protagonist row, 0 for null
  dispatchReferences,         \* provider side: characterReferences of the last dispatch
  session,                    \* number of times the page was opened
  uploadCount,                \* number of uploaded clips dropped so far
  lastArtifact,               \* provider side: [made, urls, order, segment_urls] of the last merge
  userMusicTrack,             \* [isNull, url, durationSec]
  audioTrackPatch,            \* [trackId, volume, muted]: the last patch the editor made for onAudioTrackChange
  storyboardPromptEdits,      \* shot.index -> the text typed in the shot's prompt box
  videoMode,                  \* provider side: [made, video_mode, by, reference, shots, prefers, advisory]
  jobReferences,              \* provider side: task id -> the reference images its job was submitted with
  shotCharacterNamesList      \* shot.index -> the character names ticked for the shot

vars == << contentResult, videoResult, storyboardOverride, segmentUrls,
           timelineOrder, step1Status, step2Status, regeneratingShotIndex,
           concatInProgress, concatAfterKlingInProgress, klingStatusItems,
           error, submitCount, fetchContentReq, getTaskReq, fetchVideoReq,
           regenerateShotReq, concatFromSegmentsReq, concatAfterKlingReq,
           pollReqs, jobStatus, uploadedVideoClips, protagonists,
           dispatchReferences, session, uploadCount, lastArtifact,
           userMusicTrack, audioTrackPatch,
           storyboardPromptEdits,
           videoMode,
           jobReferences,
           shotCharacterNamesList >>

\* the state most handlers leave alone: the character rows, the uploaded
\* clips, the provider's record of the references it was sent, the session
otherState == << uploadedVideoClips, protagonists, dispatchReferences, session,
                 uploadCount, lastArtifact, userMusicTrack, audioTrackPatch,
                 storyboardPromptEdits,
                 videoMode,
                 jobReferences,
                 shotCharacterNamesList >>

\* ------------------------------------------------------- array helpers
At0(s, i) == s[i + 1]

InRange0(s, i) == i >= 0 /\ i < Len(s)

\* urls.map((_, i) => i)
IdentityOrder(n) == [k \in 1..n |-> k - 1]

\* arr.filter((_, i) => i !== positionIndex)
RemoveAt0(s, p) ==
  [k \in 1 .. (IF InRange0(s, p) THEN Len(s) - 1 ELSE Len(s)) |->
     IF InRange0(s, p) /\ k - 1 >= p THEN s[k + 1] ELSE s[k]]

\* arr.filter((x) => x !== v)
RECURSIVE FilterNotEqual(_, _)
FilterNotEqual(s, v) ==
  IF s = << >> THEN << >>
  ELSE IF Head(s) = v THEN FilterNotEqual(Tail(s), v)
       ELSE << Head(s) >> \o FilterNotEqual(Tail(s), v)

\* copy = [...arr]; copy.splice(at, 0, v): at is clamped to the length
SpliceInsert(s, at, v) ==
  LET a == IF at > Len(s) THEN Len(s) ELSE at
  IN  SubSeq(s, 1, a) \o << v >> \o SubSeq(s, a + 1, Len(s))

\* ------------------------------------------------------------ optionals
NullOrder == [isNull |-> TRUE, v |-> << >>]
SomeOrder(o) == [isNull |-> FALSE, v |-> o]

NullStoryboard == [isNull |-> TRUE, list |-> << >>]
SomeStoryboard(l) == [isNull |-> FALSE, list |-> l]

NullContent == [isNull |-> TRUE, storyboard |-> << >>]
SomeContent(sb) == [isNull |-> FALSE, storyboard |-> sb]

NullItems == [isNull |-> TRUE, items |-> << >>]
SomeItems(it) == [isNull |-> FALSE, items |-> it]

NoMerged == [isSet |-> FALSE, src |-> << >>]
Merged(src) == [isSet |-> TRUE, src |-> src]

NullVideo == [isNull |-> TRUE, task_ids |-> << >>, download_urls |-> << >>,
              merged_download_url |-> NoMerged, bgm_download_url |-> 0]
SomeVideo(t, d, m) == [isNull |-> FALSE, task_ids |-> t, download_urls |-> d,
                       merged_download_url |-> m, bgm_download_url |-> 0]

\* ------------------------------------------- backend (not in the sources)
\* The video a render job produces for a shot is named after the shot it
\* was rendered for: uid for the first dispatch, 100 + uid for a
\* regeneration.  The job dispatched for a shot has the shot's uid as id.
UriOfShot(shot) == shot.uid

RegenUriOfShot(shot) == 100 + shot.uid

TaskOfShot(shot) == shot.uid

\* Storyboard generator: n shots with the dense 1-based index; duration_sec
\* is absent (-1) in every shot, or given (i seconds for shot i).
StoryboardOf(k, n, withDur) ==
  [i \in 1..n |-> [uid |-> 10 * k + i, index |-> i,
                   duration_sec |-> IF withDur THEN i ELSE -1]]

\* VideoGenerationResult answers to POST /api/video for the storyboard sent:
\* the task ids only (statuses are shown first), or every segment URL, with
\* or without the task ids and the merged artifact, or the segment URLs with
\* one of them empty (that shot failed).
AllUrls(sb) == [i \in 1..Len(sb) |-> UriOfShot(sb[i])]

AllTasks(sb) == [i \in 1..Len(sb) |-> TaskOfShot(sb[i])]

UrlsWithGap(sb, g) == [i \in 1..Len(sb) |-> IF i = g THEN 0 ELSE UriOfShot(sb[i])]

VideoResponses(sb) ==
  { SomeVideo(AllTasks(sb), << >>, NoMerged),
    SomeVideo(AllTasks(sb), AllUrls(sb), NoMerged),
    SomeVideo(<< >>, AllUrls(sb), NoMerged),
    SomeVideo(<< >>, AllUrls(sb), Merged(AllUrls(sb))) }
  \cup { SomeVideo(<< >>, UrlsWithGap(sb, g), NoMerged) : g \in 1..Len(sb) }

\* ------------------------------------------------- values of one render
\* const running = ...
running ==
  \/ step1Status = "running"
  \/ step2Status = "running"
  \/ concatInProgress
  \/ concatAfterKlingInProgress

\* contentResult && isScriptContent(contentResult)
hasScriptContent == ~contentResult.isNull

effectiveStoryboard ==
  IF hasScriptContent
  THEN (IF storyboardOverride.isNull THEN contentResult.storyboard
        ELSE storyboardOverride.list)
  ELSE << >>

\* segmentUrls.length > 0 ? segmentUrls : (videoResult?.download_urls ?? [])
UrlsOf(segs, video) ==
  IF Len(segs) > 0 THEN segs
  ELSE IF video.isNull THEN << >> ELSE video.download_urls

urls == UrlsOf(segmentUrls, videoResult)

\* urls.length > 0 && effectiveStoryboard.length > 0 && urls.length === effectiveStoryboard.length
HasSegments(u, storyboard) ==
  /\ Len(u) > 0
  /\ Len(storyboard) > 0
  /\ Len(u) = Len(storyboard)

hasSegments == HasSegments(urls, effectiveStoryboard)

\* shot?.duration_sec ?? 4
DurationOf(storyboard, i) ==
  IF InRange0(storyboard, i) /\ At0(storyboard, i).duration_sec # -1
  THEN At0(storyboard, i).duration_sec
  ELSE DefaultDurationSec

\* segmentUrls[i], undefined (no URI) outside the array
UrlAt0(segs, i) == IF InRange0(segs, i) THEN At0(segs, i) ELSE 0

\* FilterInRange without the upper limit
RECURSIVE FilterFromZero(_, _)
FilterFromZero(order, n) ==
  IF order = << >> THEN << >>
  ELSE IF Head(order) >= 0
       THEN << Head(order) >> \o FilterFromZero(Tail(order), n)
       ELSE FilterFromZero(Tail(order), n)

\* order.filter((i) => i >= 0 && i < segmentUrls.length)
RECURSIVE FilterInRange(_, _)
FilterInRange(order, n) ==
  IF order = << >> THEN << >>
  ELSE IF Head(order) >= 0 /\ Head(order) < n
       THEN << Head(order) >> \o FilterInRange(Tail(order), n)
       ELSE FilterInRange(Tail(order), n)

\* BuildVideoClips advancing startAt by the default duration for every clip
RECURSIVE BuildVideoClipsFixedStep(_, _, _, _)
BuildVideoClipsFixedStep(order, segs, storyboard, startAt) ==
  IF order = << >> THEN << >>
  ELSE LET i == Head(order)
           dur == DurationOf(storyboard, i)
           clip == [id |-> << i, startAt >>, segmentIndex |-> i,
                    url |-> UrlAt0(segs, i), durationSec |-> dur,
                    startAtSec |-> startAt]
       IN  << clip >> \o BuildVideoClipsFixedStep(Tail(order), segs, storyboard,
                                                   startAt + DefaultDurationSec)

\* the .map of buildTimelineFromSegments with its running startAt
RECURSIVE BuildVideoClips(_, _, _, _)
BuildVideoClips(order, segs, storyboard, startAt) ==
  IF order = << >> THEN << >>
  ELSE LET i == Head(order)
           dur == DurationOf(storyboard, i)
           clip == [id |-> << i, startAt >>, segmentIndex |-> i,
                    url |-> UrlAt0(segs, i), durationSec |-> dur,
                    startAtSec |-> startAt]
       IN  << clip >> \o BuildVideoClips(Tail(order), segs, storyboard, startAt + dur)

\* buildTimelineFromSegments(...).project.videoTrack.clips
buildTimelineFromSegments(segs, storyboard, order) ==
  LET o == IF order.isNull THEN IdentityOrder(Len(segs)) ELSE order.v
  IN  BuildVideoClips(FilterInRange(o, Len(segs)), segs, storyboard, 0)

\* buildTimelineFromSegments(...).mediaBin
mediaBin(segs, storyboard) ==
  [k \in 1..Len(segs) |->
     [segmentIndex |-> k - 1, url |-> segs[k],
      durationSec |-> DurationOf(storyboard, k - 1)]]

\* order: timelineOrder && timelineOrder.length === urls.length ? timelineOrder : undefined
OrderOption(order, u) ==
  IF ~order.isNull /\ Len(order.v) = Len(u) THEN order ELSE NullOrder

orderOption == OrderOption(timelineOrder, urls)

\* timelineProject.videoTrack.clips for the values of one render
TimelineClipsOf(u, storyboard, order) ==
  IF HasSegments(u, storyboard)
  THEN buildTimelineFromSegments(u, storyboard, OrderOption(order, u))
  ELSE << >>

timelineClips == TimelineClipsOf(urls, effectiveStoryboard, timelineOrder)

mediaBinItems ==
  IF hasSegments THEN mediaBin(urls, effectiveStoryboard) ELSE << >>

\* [...clips].sort((a, b) => a.startAtSec - b.startAtSec), a stable sort
RECURSIVE InsertByStart(_, _)
InsertByStart(sorted, c) ==
  IF sorted = << >> THEN << c >>
  ELSE IF c.startAtSec < Head(sorted).startAtSec THEN << c >> \o sorted
       ELSE << Head(sorted) >> \o InsertByStart(Tail(sorted), c)

RECURSIVE SortByStart(_)
SortByStart(clips) ==
  IF clips = << >> THEN << >>
  ELSE InsertByStart(SortByStart(SubSeq(clips, 1, Len(clips) - 1)), clips[Len(clips)])

\* [...timelineProject.videoTrack.clips, ...uploadedVideoClips].sort(...)
mergedVideoClips == SortByStart(timelineClips \o uploadedVideoClips)

RECURSIVE MaxEnd(_)
MaxEnd(clips) ==
  IF clips = << >> THEN 0
  ELSE LET e == Head(clips).startAtSec + Head(clips).durationSec
           r == MaxEnd(Tail(clips))
       IN  IF e > r THEN e ELSE r

totalTimelineSec ==
  LET end == MaxEnd(mergedVideoClips)
  IN  IF end > 1 THEN end ELSE 1

\* ------------------------------------------------------------ audio tracks
\* the duration of the first clip alone
DurationOfFirstClip(clips) ==
  IF clips = << >> THEN 0 ELSE Head(clips).durationSec

\* videoClips.reduce((s, c) => s + c.durationSec, 0)
RECURSIVE TotalDurationSec(_)
TotalDurationSec(clips) ==
  IF clips = << >> THEN 0
  ELSE Head(clips).durationSec + TotalDurationSec(Tail(clips))

\* an audio track with its one clip
AudioTrack(id, clipId, url, durationSec, volume) ==
  [id |-> id, volume |-> volume, muted |-> FALSE,
   clips |-> << [id |-> clipId, url |-> url, durationSec |-> durationSec,
                 startAtSec |-> 0] >>]

\* audioTracks of buildTimelineFromSegments for the clips it built; an absent
\* option is the URI 0
BuildAudioTracks(videoClips, bgmUrl, voiceoverUrl) ==
  (IF bgmUrl # 0
   THEN << AudioTrack("audio-bgm", "bgm-1", bgmUrl, TotalDurationSec(videoClips),
                      BgmVolume) >>
   ELSE << >>)
  \o
  (IF voiceoverUrl # 0
   THEN << AudioTrack("audio-voice", "vo-1", voiceoverUrl, TotalDurationSec(videoClips),
                      VoiceoverVolume) >>
   ELSE << >>)

\* timelineProject.audioTracks: the page hands bgmUrl and no voiceoverUrl
TimelineAudioTracksOf(u, storyboard, order, video) ==
  IF HasSegments(u, storyboard)
  THEN BuildAudioTracks(TimelineClipsOf(u, storyboard, order), video.bgm_download_url, 0)
  ELSE << >>

\* Math.max(userMusicTrack.durationSec, totalTimelineSec)
MaxOf(a, b) == IF a > b THEN a ELSE b

\* [...timelineProject.audioTracks, ...(userMusicTrack ? [ {...} ] : [])]
MergedAudioTracksOf(u, storyboard, order, video, music, total) ==
  TimelineAudioTracksOf(u, storyboard, order, video)
  \o
  (IF music.isNull THEN << >>
   ELSE << AudioTrack("audio-user-music", "user-music-1", music.url,
                      MaxOf(music.durationSec, total), UserMusicVolume) >>)

mergedAudioTracks ==
  MergedAudioTracksOf(urls, effectiveStoryboard, timelineOrder, videoResult,
                      userMusicTrack, totalTimelineSec)

\* videoTrack.clips.map((c) => c.segmentIndex!)
OrderOfClips(clips) == [k \in 1..Len(clips) |-> clips[k].segmentIndex]

\* findInsertIndex over the clips handed to the editor
RECURSIVE FindInsertFrom(_, _, _, _)
FindInsertFrom(clips, startAtSec, j, cum) ==
  IF j >= Len(clips) THEN Len(clips)
  ELSE IF cum + At0(clips, j).durationSec > startAtSec THEN j
       ELSE FindInsertFrom(clips, startAtSec, j + 1, cum + At0(clips, j).durationSec)

findInsertIndex(clips, startAtSec) == FindInsertFrom(clips, startAtSec, 0, 0)

\* the order handleDropClipOnTrack / handleDropFromBin hand to onVideoOrderChange
DropOrder(clips, segmentIndex, startAtSec) ==
  LET order == OrderOfClips(clips)
      without == FilterNotEqual(order, segmentIndex)
      insertAt == findInsertIndex(clips, startAtSec)
  IN  SpliceInsert(without, insertAt, segmentIndex)

\* the order handleRemoveClip hands to onVideoOrderChange
RECURSIVE ClipsWithoutId(_, _)
ClipsWithoutId(clips, clipId) ==
  IF clips = << >> THEN << >>
  ELSE IF Head(clips).id = clipId THEN ClipsWithoutId(Tail(clips), clipId)
       ELSE << Head(clips) >> \o ClipsWithoutId(Tail(clips), clipId)

\* arr.filter((i) => i >= 0)
RECURSIVE FilterNonNegative(_)
FilterNonNegative(s) ==
  IF s = << >> THEN << >>
  ELSE IF Head(s) >= 0 THEN << Head(s) >> \o FilterNonNegative(Tail(s))
       ELSE FilterNonNegative(Tail(s))

RemoveOrder(clips, clipId) ==
  FilterNonNegative(OrderOfClips(ClipsWithoutId(clips, clipId)))


\* ------------------------------------------------ task status polling
\* dependencies of the polling effect:
\* [videoResult?.task_ids?.join(","), videoResult?.merged_download_url]
PollDeps(video) ==
  [tasks |-> IF video.isNull THEN << -1 >> ELSE video.task_ids,
   merged |-> video.merged_download_url]

\* !( !taskIds?.length || videoResult?.merged_download_url )
PollActive(video) ==
  /\ ~video.isNull
  /\ Len(video.task_ids) > 0
  /\ ~video.merged_download_url.isSet

\* the video a succeeded job reports: the first render of its shot
ResultUriOfTask(t) == t

\* answer of GET /api/video/kling-task-status for the ids asked
StatusItems(taskIds, status) ==
  [k \in 1..Len(taskIds) |->
     [task_id |-> taskIds[k],
      status |-> status[taskIds[k]],
      url |-> IF status[taskIds[k]] = "succeed" THEN ResultUriOfTask(taskIds[k]) ELSE 0]]

\* the backend's answer: the items with their aggregate
KlingStatusResponse(taskIds, status) ==
  [items |-> StatusItems(taskIds, status),
   all_succeed |-> \A k \in 1..Len(taskIds) : status[taskIds[k]] = "succeed"]

\* if (!taskIds.length) return { items: [], all_succeed: false }; else the fetch
getKlingTaskStatus(taskIds, status) ==
  IF Len(taskIds) = 0 THEN [items |-> << >>, all_succeed |-> FALSE]
  ELSE KlingStatusResponse(taskIds, status)

\* one call of poll() in flight, with the answer it will deliver
PollRequest(taskIds, status) ==
  [items |-> getKlingTaskStatus(taskIds, status).items,
   all_succeed |-> getKlingTaskStatus(taskIds, status).all_succeed,
   cancelled |-> FALSE]

\* a cleanup that leaves the polls in flight as they are
CancelNone(polls) == polls

\* cleanup of the polling effect: cancelled = true for the round that ends
CancelAll(polls) == { [p EXCEPT !.cancelled = TRUE] : p \in polls }

\* The effect of DramaPage.tsx:156-175 as run after a render in which
\* videoResult went from old to new: cleanup of the previous run, then the
\* body (clear the items, or poll once at once and start the interval).
PollEffectItems(old, new, items) ==
  IF PollDeps(old) = PollDeps(new) THEN items
  ELSE IF PollActive(new) THEN items ELSE NullItems

\* the polling effect that starts the loop and never asks the provider
PollEffectReqsIdle(old, new, polls, status) ==
  IF PollDeps(old) = PollDeps(new) THEN polls ELSE CancelAll(polls)

PollEffectReqs(old, new, polls, status) ==
  IF PollDeps(old) = PollDeps(new) THEN polls
  ELSE IF PollActive(new)
       THEN CancelAll(polls) \cup { PollRequest(new.task_ids, status) }
       ELSE CancelAll(polls)

\* ---------------------------------------------------- character references
\* the reference images a file input can deliver
Images == { 1, 2 }

\* the image of the first row that has one, alone
RECURSIVE FirstReferenceOf(_)
FirstReferenceOf(rows) ==
  IF rows = << >> THEN << >>
  ELSE IF Head(rows) # 0 THEN << Head(rows) >>
       ELSE FirstReferenceOf(Tail(rows))

\* protagonists.forEach((p) => { if (p.dataUrl) list.push(...) })
RECURSIVE ReferencesOf(_)
ReferencesOf(rows) ==
  IF rows = << >> THEN << >>
  ELSE IF Head(rows) # 0 THEN << Head(rows) >> \o ReferencesOf(Tail(rows))
       ELSE ReferencesOf(Tail(rows))

buildCharacterReferences == ReferencesOf(protagonists)

\* no job was submitted with a reference image
NoReferences == [t \in {} |-> << >>]

\* provider side of POST /api/video: one job per shot of the storyboard sent,
\* each submitted with the character_references of the request body
SubmittedReferences(req) ==
  [t \in { TaskOfShot(req.storyboard[k]) : k \in 1..Len(req.storyboard) } |->
     req.characterReferences]

\* ----------------------------------------------------------------- prompts
\* A prompt text is [ws, text]: text names its characters between the
\* leading and the trailing white space (0 when there are none), ws tells
\* whether it has white space around them.
\* String.prototype.trim
Trim(p) == [p EXCEPT !.ws = FALSE]

EmptyText == [ws |-> FALSE, text |-> 0]

\* shot.t2v_prompt as the storyboard generator wrote it
OriginalPromptOf(shot) == [ws |-> FALSE, text |-> 500 + shot.uid]

\* useState<Record<number, string>>({})
NoEdits == [k \in {} |-> EmptyText]

\* what a user types in a prompt box: white space only, or a text with
\* white space around it
PromptTexts == { [ws |-> TRUE, text |-> 0], [ws |-> TRUE, text |-> 900] }

\* storyboardPromptEdits[shot.index] ?? shot.t2v_prompt ?? ""
OverridePromptOf(edits, shot) ==
  IF shot.index \in DOMAIN edits THEN edits[shot.index] ELSE OriginalPromptOf(shot)

\* the override sent as typed whenever the options hold one
BodyPromptAsTyped(p) == << p >>

\* overridePrompt.trim() || undefined, and in regenerateShot
\* if (options.overrideT2vPrompt?.trim()) body.override_t2v_prompt = ...trim()
\* << >> is a body without the field
BodyPrompt(p) == IF Trim(p) = EmptyText THEN << >> ELSE << Trim(p) >>

\* edited != null && edited.trim() !== "" ? { ...item, t2v_prompt: edited.trim() } : item
SentPrompt(edits, shot) ==
  IF shot.index \in DOMAIN edits /\ Trim(edits[shot.index]) # EmptyText
  THEN Trim(edits[shot.index])
  ELSE OriginalPromptOf(shot)

\* storyboardToSend of handleGenerateVideo, by its t2v_prompt fields
StoryboardPromptsToSend(edits, storyboard) ==
  [k \in 1..Len(storyboard) |-> SentPrompt(edits, storyboard[k])]

\* handleDeleteShot: newEdits[newShot.index] = storyboardPromptEdits[oldIdx]
\* for every shot kept whose old index has an edit
OldIdx(list, positionIndex, j) ==
  list[IF j - 1 < positionIndex THEN j ELSE j + 1].index

RemapEdits(edits, list, newList, positionIndex) ==
  LET kept == { j \in 1..Len(newList) : OldIdx(list, positionIndex, j) \in DOMAIN edits }
  IN  [k \in { newList[j].index : j \in kept } |->
         edits[OldIdx(list, positionIndex,
                      CHOOSE j \in kept : newList[j].index = k)]]

\* backend: the prompt a regeneration renders with is override_t2v_prompt
\* when the body has it, else the t2v_prompt of the shot in the storyboard sent
PromptUsed(req) ==
  IF req.override_t2v_prompt # << >> THEN req.override_t2v_prompt[1]
  ELSE OriginalPromptOf([uid |-> req.uid])

\* ----------------------------------------------------- per-shot characters
\* no shot has a character ticked.  A character is named by the number of
\* its row; the shots of a storyboard carry no character_names of their own.
NoSelections == [k \in {} |-> << >>]

\* getSelectedCharactersForShot
SelectedCharactersFor(selections, index) ==
  IF index \in DOMAIN selections /\ Len(selections[index]) > 0
  THEN selections[index]
  ELSE << >>

\* current.filter((x) => x !== name)
WithoutName(current, name) == SelectSeq(current, LAMBDA x : x # name)

\* handleDeleteShot: newCharNamesList[newShot.index] = shotCharacterNamesList[oldIdx]
\* for every shot kept whose old index has a non-empty list, and
\* setShotCharacterNamesList((prev) => (Object.keys(newCharNamesList).length ? { ...newCharNamesList } : prev))
RemapSelections(selections, list, newList, positionIndex) ==
  LET kept == { j \in 1..Len(newList) :
                  SelectedCharactersFor(selections, OldIdx(list, positionIndex, j)) # << >> }
      newCharNamesList ==
        [k \in { newList[j].index : j \in kept } |->
           selections[OldIdx(list, positionIndex,
                             CHOOSE j \in kept : newList[j].index = k)]]
  IN  IF DOMAIN newCharNamesList # {} THEN newCharNamesList ELSE selections

\* ------------------------------------------------------- mode selection
\* the five generation modes
VideoModes == { "smart_multiframe", "t2v_single", "t2v_multi", "i2v_multi", "s2v_multi" }

\* the modes the recommendation is asked to choose from
RecommendedModes == { "smart_multiframe", "t2v_single", "t2v_multi", "i2v_multi" }

\* what the recommendation call comes back with: nothing (no key configured
\* or the call failed), one of the five modes, or some other text
AdvisoryAnswers == { "unavailable", "other" } \cup VideoModes

\* the rule table that ignores the preference of the shots
choose_video_mode_ignoring_preference(shots, prefers) ==
  IF shots <= 1 THEN "t2v_single" ELSE "t2v_multi"

\* rule fallback: one shot or none -> t2v_single; an explicit preference for
\* image-to-video -> i2v_multi; else t2v_multi
choose_video_mode(shots, prefers) ==
  IF shots <= 1 THEN "t2v_single"
  ELSE IF prefers THEN "i2v_multi"
  ELSE "t2v_multi"

\* a recommendation taken as it comes whenever there is one
suggestionAcceptedUnvalidated(advisory) == advisory # "unavailable"

\* a recommendation is taken only when it is one of the four modes asked for
suggestionAccepted(advisory) == advisory \in RecommendedModes

\* a selection that asks for the recommendation before it looks at the
\* reference image
selectModeAdvisoryFirst(reference, shots, prefers, advisory) ==
  IF suggestionAccepted(advisory) THEN [video_mode |-> advisory, by |-> "llm"]
  ELSE IF reference THEN [video_mode |-> "s2v_multi", by |-> "reference"]
  ELSE [video_mode |-> choose_video_mode(shots, prefers), by |-> "rule"]

\* 1. a reference image -> s2v_multi, the recommendation is not asked;
\* 2. else the recommendation; 3. else the rule table
selectMode(reference, shots, prefers, advisory) ==
  IF reference THEN [video_mode |-> "s2v_multi", by |-> "reference"]
  ELSE IF suggestionAccepted(advisory) THEN [video_mode |-> advisory, by |-> "llm"]
  ELSE [video_mode |-> choose_video_mode(shots, prefers), by |-> "rule"]

\* no mode was selected for the request in flight
NoMode == [made |-> FALSE, video_mode |-> "none", by |-> "none", reference |-> FALSE,
           shots |-> 0, prefers |-> FALSE, advisory |-> "unavailable"]

\* provider side of POST /api/video: the mode is selected for the storyboard
\* and the references of the request
selectModeForRequest(prefers, advisory) ==
  /\ fetchVideoReq.active
  /\ ~videoMode.made
  /\ videoMode' =
       LET reference == fetchVideoReq.characterReferences # << >>
           shots == Len(fetchVideoReq.storyboard)
           sel == selectMode(reference, shots, prefers, advisory)
       IN  [made |-> TRUE, video_mode |-> sel.video_mode, by |-> sel.by,
            reference |-> reference, shots |-> shots, prefers |-> prefers,
            advisory |-> advisory]
  /\ UNCHANGED << contentResult, videoResult, storyboardOverride, segmentUrls,
                  timelineOrder, step1Status, step2Status, regeneratingShotIndex,
                  concatInProgress, concatAfterKlingInProgress, klingStatusItems,
                  error, submitCount, fetchContentReq, getTaskReq, fetchVideoReq,
                  regenerateShotReq, concatFromSegmentsReq, concatAfterKlingReq,
                  pollReqs, jobStatus, uploadedVideoClips, protagonists,
                  dispatchReferences, session, uploadCount, lastArtifact,
                  userMusicTrack, audioTrackPatch, storyboardPromptEdits,
                  jobReferences,
                  shotCharacterNamesList >>

\* ------------------------------------------------------------- requests
NoVideoReq == [active |-> FALSE, storyboard |-> << >>, t2v_prompts |-> << >>,
               characterReferences |-> << >>]

NoRegenReq == [active |-> FALSE, shotIndex |-> -1, uid |-> 0, closureUrls |-> << >>,
               override_t2v_prompt |-> << >>,
               characterReferences |-> << >>]

NoConcatReq == [active |-> FALSE, segment_urls |-> << >>, storyboard |-> << >>,
                srcIdx |-> << >>, closureVideo |-> NullVideo, urls |-> << >>]

NoAfterKlingReq == [active |-> FALSE, task_ids |-> << >>, storyboard |-> << >>]

\* no dispatch with references was made from this page (a stored task is
\* taken to hold no character_references, so a load keeps the character rows)
NoDispatch == << >>

EmptyStatus == [t \in {} |-> "processing"]

\* useState(null) of userMusicTrack
NoMusic == [isNull |-> TRUE, url |-> 0, durationSec |-> 0]

\* the editor has made no patch for an audio track
NoPatch == [trackId |-> "none", volume |-> -1, muted |-> "absent"]

\* no merged artifact was produced yet
NoArtifact == [made |-> FALSE, urls |-> << >>, order |-> << >>, segment_urls |-> << >>]

Init ==
  /\ contentResult = NullContent
  /\ videoResult = NullVideo
  /\ storyboardOverride = NullStoryboard
  /\ segmentUrls = << >>
  /\ timelineOrder = NullOrder
  /\ step1Status = "pending"
  /\ step2Status = "pending"
  /\ regeneratingShotIndex = -1
  /\ concatInProgress = FALSE
  /\ concatAfterKlingInProgress = FALSE
  /\ klingStatusItems = NullItems
  /\ error = "none"
  /\ submitCount = 0
  /\ fetchContentReq = FALSE
  /\ getTaskReq \in BOOLEAN
  /\ fetchVideoReq = NoVideoReq
  /\ regenerateShotReq = NoRegenReq
  /\ concatFromSegmentsReq = NoConcatReq
  /\ concatAfterKlingReq = NoAfterKlingReq
  /\ pollReqs = {}
  /\ jobStatus = EmptyStatus
  /\ uploadedVideoClips = << >>
  /\ protagonists = << 0 >>
  /\ dispatchReferences = NoDispatch
  /\ session = 1
  /\ uploadCount = 0
  /\ lastArtifact = NoArtifact
  /\ userMusicTrack = NoMusic
  /\ audioTrackPatch = NoPatch
  /\ storyboardPromptEdits = NoEdits
  /\ videoMode = NoMode
  /\ jobReferences = NoReferences
  /\ shotCharacterNamesList = NoSelections

\* ------------------------------------------------------------ handleSubmit
handleSubmit ==
  /\ storyboardPromptEdits' = NoEdits
  /\ shotCharacterNamesList' = NoSelections
  /\ UNCHANGED << uploadedVideoClips, protagonists, dispatchReferences, session,
                  uploadCount, lastArtifact, userMusicTrack, audioTrackPatch,
                  videoMode,
                  jobReferences >>
  /\ ~running
  /\ submitCount < MaxSubmits
  /\ submitCount' = submitCount + 1
  /\ error' = "none"
  /\ contentResult' = NullContent
  /\ videoResult' = NullVideo
  /\ step1Status' = "running"
  /\ step2Status' = "pending"
  /\ fetchContentReq' = TRUE
  /\ UNCHANGED getTaskReq
  /\ klingStatusItems' = PollEffectItems(videoResult, NullVideo, klingStatusItems)
  /\ pollReqs' = PollEffectReqs(videoResult, NullVideo, pollReqs, jobStatus)
  /\ UNCHANGED << storyboardOverride, segmentUrls, timelineOrder,
                  regeneratingShotIndex, concatInProgress,
                  concatAfterKlingInProgress, fetchVideoReq, regenerateShotReq,
                  concatFromSegmentsReq, concatAfterKlingReq, jobStatus >>

\* fetchContent resolved with a script_drama result.  The createTask that
\* follows is an autosave whose failure the handler swallows; it sets no
\* state of this model.
handleSubmitContent ==
  /\ UNCHANGED otherState
  /\ fetchContentReq
  /\ \E n \in 1..MaxShots, withDur \in BOOLEAN :
       contentResult' = SomeContent(StoryboardOf(submitCount, n, withDur))
  /\ storyboardOverride' = NullStoryboard
  /\ step1Status' = "done"
  /\ step2Status' = "pending"
  /\ fetchContentReq' = FALSE
  /\ UNCHANGED getTaskReq
  /\ UNCHANGED << videoResult, segmentUrls, timelineOrder, regeneratingShotIndex,
                  concatInProgress, concatAfterKlingInProgress, klingStatusItems,
                  error, submitCount, fetchVideoReq, regenerateShotReq,
                  concatFromSegmentsReq, concatAfterKlingReq, pollReqs, jobStatus >>

\* fetchContent resolved with another pipeline: if (!isScriptContent(content)) return
handleSubmitNotScript ==
  /\ UNCHANGED otherState
  /\ fetchContentReq
  /\ fetchContentReq' = FALSE
  /\ UNCHANGED getTaskReq
  /\ UNCHANGED << contentResult, videoResult, storyboardOverride, segmentUrls,
                  timelineOrder, step1Status, step2Status, regeneratingShotIndex,
                  concatInProgress, concatAfterKlingInProgress, klingStatusItems,
                  error, submitCount, fetchVideoReq, regenerateShotReq,
                  concatFromSegmentsReq, concatAfterKlingReq, pollReqs, jobStatus >>

\* fetchContent rejected
handleSubmitFailed ==
  /\ UNCHANGED otherState
  /\ fetchContentReq
  /\ fetchContentReq' = FALSE
  /\ UNCHANGED getTaskReq
  /\ error' = "request"
  /\ step1Status' = IF step1Status = "running" THEN "pending" ELSE step1Status
  /\ step2Status' = IF step2Status = "running" THEN "pending" ELSE step2Status
  /\ UNCHANGED << contentResult, videoResult, storyboardOverride, segmentUrls,
                  timelineOrder, regeneratingShotIndex, concatInProgress,
                  concatAfterKlingInProgress, klingStatusItems, submitCount,
                  fetchVideoReq, regenerateShotReq, concatFromSegmentsReq,
                  concatAfterKlingReq, pollReqs, jobStatus >>

\* provider side: the jobs of a dispatch are processing when only their ids
\* come back, and terminal when the segment URLs come back with them
DispatchedStatus(video) ==
  [t \in { video.task_ids[k] : k \in 1..Len(video.task_ids) } |->
     IF Len(video.download_urls) = 0 THEN "processing"
     ELSE IF \E k \in 1..Len(video.task_ids) :
               video.task_ids[k] = t /\ video.download_urls[k] # 0
          THEN "succeed" ELSE "failed"]

\* ---------------------------------------------------------------- getTask
\* Tasks the store can hold for the id in the URL: a storyboard without a
\* video result, or with the result of its dispatch.  The jobs of a stored
\* result are in the state the dispatch left them in.
SavedTasks ==
  { [storyboard |-> sb, video |-> v] :
      sb \in { StoryboardOf(0, n, d) : n \in 1..MaxShots, d \in BOOLEAN },
      v \in { NullVideo } }
  \cup UNION { { [storyboard |-> sb, video |-> v] : v \in VideoResponses(sb) } :
               sb \in { StoryboardOf(0, n, d) : n \in 1..MaxShots, d \in BOOLEAN } }

\* getTask(taskIdFromUrl) resolved with a task that has content (the page was
\* opened on a saved task)
loadTask ==
  /\ UNCHANGED << uploadedVideoClips, protagonists, session, uploadCount, lastArtifact,
                  userMusicTrack, audioTrackPatch,
                  storyboardPromptEdits,
                  videoMode,
                  jobReferences,
                  shotCharacterNamesList >>
  /\ dispatchReferences' = NoDispatch
  /\ getTaskReq
  /\ getTaskReq' = FALSE
  /\ \E task \in SavedTasks :
       /\ contentResult' = SomeContent(task.storyboard)
       /\ videoResult' = task.video
       /\ segmentUrls' = task.video.download_urls
       /\ step2Status' = IF task.video.isNull THEN "pending" ELSE "done"
       /\ jobStatus' = DispatchedStatus(task.video)
       /\ klingStatusItems' = PollEffectItems(videoResult, task.video, klingStatusItems)
       /\ pollReqs' = PollEffectReqs(videoResult, task.video, pollReqs,
                                     DispatchedStatus(task.video))
  /\ storyboardOverride' = NullStoryboard
  /\ step1Status' = "done"
  /\ UNCHANGED << timelineOrder, regeneratingShotIndex, concatInProgress,
                  concatAfterKlingInProgress, error, submitCount, fetchContentReq,
                  fetchVideoReq, regenerateShotReq, concatFromSegmentsReq,
                  concatAfterKlingReq >>

\* getTask rejected: .catch((e) => setError(...))
loadTaskFailed ==
  /\ UNCHANGED otherState
  /\ getTaskReq
  /\ getTaskReq' = FALSE
  /\ error' = "request"
  /\ UNCHANGED << contentResult, videoResult, storyboardOverride, segmentUrls,
                  timelineOrder, step1Status, step2Status, regeneratingShotIndex,
                  concatInProgress, concatAfterKlingInProgress, klingStatusItems,
                  submitCount, fetchContentReq, fetchVideoReq, regenerateShotReq,
                  concatFromSegmentsReq, concatAfterKlingReq, pollReqs, jobStatus >>

\* -------------------------------------------------------- handleDeleteShot
\* Renumber leaving every shot the index it had
RenumberKeepingIndex(list) == list

\* .filter((_, i) => i !== positionIndex).map((s, i) => ({ ...s, index: i + 1 }))
Renumber(list) == [k \in 1..Len(list) |-> [list[k] EXCEPT !.index = k]]

handleDeleteShot(positionIndex) ==
  /\ ~running
  /\ Len(effectiveStoryboard) > 1
  /\ InRange0(effectiveStoryboard, positionIndex)
  /\ storyboardPromptEdits' =
       RemapEdits(storyboardPromptEdits, effectiveStoryboard,
                  Renumber(RemoveAt0(effectiveStoryboard, positionIndex)),
                  positionIndex)
  /\ shotCharacterNamesList' =
       RemapSelections(shotCharacterNamesList, effectiveStoryboard,
                       Renumber(RemoveAt0(effectiveStoryboard, positionIndex)),
                       positionIndex)
  /\ UNCHANGED << uploadedVideoClips, protagonists, dispatchReferences, session,
                  uploadCount, lastArtifact, userMusicTrack, audioTrackPatch,
                  videoMode,
                  jobReferences >>
  /\ storyboardOverride' =
       SomeStoryboard(Renumber(RemoveAt0(effectiveStoryboard, positionIndex)))
  /\ segmentUrls' =
       IF Len(segmentUrls) # Len(effectiveStoryboard) THEN segmentUrls
       ELSE RemoveAt0(segmentUrls, positionIndex)
  /\ UNCHANGED << contentResult, videoResult, timelineOrder, step1Status,
                  step2Status, regeneratingShotIndex, concatInProgress,
                  concatAfterKlingInProgress, klingStatusItems, error,
                  submitCount, fetchContentReq, getTaskReq, fetchVideoReq, regenerateShotReq,
                  concatFromSegmentsReq, concatAfterKlingReq, pollReqs, jobStatus >>


\* ------------------------------------------------------ handleGenerateVideo
handleGenerateVideo ==
  /\ videoMode' = NoMode
  /\ UNCHANGED << uploadedVideoClips, protagonists, dispatchReferences, session,
                  uploadCount, lastArtifact, userMusicTrack, audioTrackPatch,
                  storyboardPromptEdits, jobReferences,
                  shotCharacterNamesList >>
  /\ hasScriptContent
  /\ step1Status = "done"
  /\ step2Status = "pending"
  /\ Len(effectiveStoryboard) > 0
  /\ step2Status' = "running"
  /\ error' = "none"
  /\ fetchVideoReq' = [active |-> TRUE, storyboard |-> effectiveStoryboard,
                        t2v_prompts |-> StoryboardPromptsToSend(storyboardPromptEdits,
                                                                effectiveStoryboard),
                        characterReferences |-> buildCharacterReferences]
  /\ UNCHANGED << contentResult, videoResult, storyboardOverride, segmentUrls,
                  timelineOrder, step1Status, regeneratingShotIndex,
                  concatInProgress, concatAfterKlingInProgress, klingStatusItems,
                  submitCount, fetchContentReq, getTaskReq, regenerateShotReq,
                  concatFromSegmentsReq, concatAfterKlingReq, pollReqs, jobStatus >>

\* fetchVideo resolved
handleGenerateVideoDone ==
  /\ UNCHANGED << uploadedVideoClips, protagonists, session, uploadCount, lastArtifact,
                  userMusicTrack, audioTrackPatch,
                  storyboardPromptEdits,
                  videoMode, shotCharacterNamesList >>
  /\ dispatchReferences' = fetchVideoReq.characterReferences
  /\ jobReferences' = SubmittedReferences(fetchVideoReq)
  /\ fetchVideoReq.active
  /\ \E video \in VideoResponses(fetchVideoReq.storyboard) :
       /\ videoResult' = video
       /\ segmentUrls' = video.download_urls
       /\ jobStatus' = DispatchedStatus(video)
       /\ klingStatusItems' = PollEffectItems(videoResult, video, klingStatusItems)
       /\ pollReqs' = PollEffectReqs(videoResult, video, pollReqs, DispatchedStatus(video))
  /\ step2Status' = "done"
  /\ fetchVideoReq' = NoVideoReq
  /\ UNCHANGED << contentResult, storyboardOverride, timelineOrder, step1Status,
                  regeneratingShotIndex, concatInProgress,
                  concatAfterKlingInProgress, error, submitCount, fetchContentReq, getTaskReq,
                  regenerateShotReq, concatFromSegmentsReq, concatAfterKlingReq >>

\* fetchVideo rejected
handleGenerateVideoFailed ==
  /\ UNCHANGED otherState
  /\ fetchVideoReq.active
  /\ error' = "request"
  /\ step2Status' = "pending"
  /\ fetchVideoReq' = NoVideoReq
  /\ UNCHANGED << contentResult, videoResult, storyboardOverride, segmentUrls,
                  timelineOrder, step1Status, regeneratingShotIndex,
                  concatInProgress, concatAfterKlingInProgress, klingStatusItems,
                  submitCount, fetchContentReq, getTaskReq, regenerateShotReq,
                  concatFromSegmentsReq, concatAfterKlingReq, pollReqs, jobStatus >>

\* ------------------------------------------------------------ addProtagonist
\* the "+主角" button (disabled={running}) adds a row without an image
addProtagonist ==
  /\ ~running
  /\ Len(protagonists) < MaxCharacters
  /\ protagonists' = Append(protagonists, 0)
  /\ UNCHANGED << contentResult, videoResult, storyboardOverride, segmentUrls,
                  timelineOrder, step1Status, step2Status, regeneratingShotIndex,
                  concatInProgress, concatAfterKlingInProgress, klingStatusItems,
                  error, submitCount, fetchContentReq, getTaskReq, fetchVideoReq,
                  regenerateShotReq, concatFromSegmentsReq, concatAfterKlingReq,
                  pollReqs, jobStatus, uploadedVideoClips, dispatchReferences, session,
                  uploadCount, lastArtifact, userMusicTrack, audioTrackPatch,
                  storyboardPromptEdits, videoMode, jobReferences,
                  shotCharacterNamesList >>

\* -------------------------------------------------- onProtagonistFileChange
\* an image chosen in the file input of protagonist row k (disabled={running})
onProtagonistFileChange(k, dataUrl) ==
  /\ ~running
  /\ k \in 1..Len(protagonists)
  /\ protagonists[k] # dataUrl
  /\ protagonists' = [protagonists EXCEPT ![k] = dataUrl]
  /\ UNCHANGED << contentResult, videoResult, storyboardOverride, segmentUrls,
                  timelineOrder, step1Status, step2Status, regeneratingShotIndex,
                  concatInProgress, concatAfterKlingInProgress, klingStatusItems,
                  error, submitCount, fetchContentReq, getTaskReq, fetchVideoReq,
                  regenerateShotReq, concatFromSegmentsReq, concatAfterKlingReq,
                  pollReqs, jobStatus, uploadedVideoClips, dispatchReferences, session,
                  uploadCount, lastArtifact, userMusicTrack, audioTrackPatch,
                  storyboardPromptEdits,
                  videoMode,
                  jobReferences,
                  shotCharacterNamesList >>

\* ----------------------------------------------------- handleRegenerateShot
\* the "preview and adjust" panel that holds the regenerate and confirm buttons
previewPanelShown ==
  /\ hasScriptContent
  /\ Len(effectiveStoryboard) > 0
  /\ (Len(segmentUrls) > 0 \/ (~videoResult.isNull /\ Len(videoResult.download_urls) > 0))

\* handleRegenerateShot that also ends the polls in flight
handleRegenerateShotStoppingPolls(shotIndex) ==
  /\ UNCHANGED otherState
  /\ previewPanelShown
  /\ ~running
  /\ regeneratingShotIndex = -1
  /\ InRange0(effectiveStoryboard, shotIndex)
  /\ regeneratingShotIndex' = shotIndex
  /\ error' = "none"
  /\ regenerateShotReq' =
       [active |-> TRUE, shotIndex |-> shotIndex,
        uid |-> At0(effectiveStoryboard, shotIndex).uid,
        closureUrls |-> IF videoResult.isNull THEN << >> ELSE videoResult.download_urls,
        override_t2v_prompt |->
          BodyPrompt(OverridePromptOf(storyboardPromptEdits,
                                      At0(effectiveStoryboard, shotIndex))),
        characterReferences |-> buildCharacterReferences]
  /\ pollReqs' = CancelAll(pollReqs)
  /\ UNCHANGED << contentResult, videoResult, storyboardOverride, segmentUrls,
                  timelineOrder, step1Status, step2Status, concatInProgress,
                  concatAfterKlingInProgress, klingStatusItems, submitCount,
                  fetchContentReq, getTaskReq, fetchVideoReq, concatFromSegmentsReq,
                  concatAfterKlingReq, jobStatus >>

handleRegenerateShot(shotIndex) ==
  /\ UNCHANGED otherState
  /\ previewPanelShown
  /\ ~running
  /\ regeneratingShotIndex = -1
  /\ InRange0(effectiveStoryboard, shotIndex)
  /\ regeneratingShotIndex' = shotIndex
  /\ error' = "none"
  /\ regenerateShotReq' =
       [active |-> TRUE, shotIndex |-> shotIndex,
        uid |-> At0(effectiveStoryboard, shotIndex).uid,
        closureUrls |-> IF videoResult.isNull THEN << >> ELSE videoResult.download_urls,
        override_t2v_prompt |->
          BodyPrompt(OverridePromptOf(storyboardPromptEdits,
                                      At0(effectiveStoryboard, shotIndex))),
        characterReferences |-> buildCharacterReferences]
  /\ UNCHANGED << contentResult, videoResult, storyboardOverride, segmentUrls,
                  timelineOrder, step1Status, step2Status, concatInProgress,
                  concatAfterKlingInProgress, klingStatusItems, submitCount,
                  fetchContentReq, getTaskReq, fetchVideoReq, concatFromSegmentsReq,
                  concatAfterKlingReq, pollReqs, jobStatus >>

\* while (next.length <= shotIndex) next.push("")
PadTo(s, shotIndex) ==
  [k \in 1 .. (IF Len(s) <= shotIndex THEN shotIndex + 1 ELSE Len(s)) |->
     IF k <= Len(s) THEN s[k] ELSE 0]

\* the updater given to setSegmentUrls
RegeneratedUrls(prev, closureUrls, shotIndex, download_url) ==
  LET next == PadTo(IF Len(prev) > 0 THEN prev ELSE closureUrls, shotIndex)
  IN  [next EXCEPT ![shotIndex + 1] = download_url]

\* regenerateShot resolved
handleRegenerateShotDone ==
  /\ UNCHANGED otherState
  /\ regenerateShotReq.active
  /\ segmentUrls' = RegeneratedUrls(segmentUrls, regenerateShotReq.closureUrls,
                                    regenerateShotReq.shotIndex,
                                    RegenUriOfShot([uid |-> regenerateShotReq.uid]))
  /\ regeneratingShotIndex' = -1
  /\ regenerateShotReq' = NoRegenReq
  /\ UNCHANGED << contentResult, videoResult, storyboardOverride, timelineOrder,
                  step1Status, step2Status, concatInProgress,
                  concatAfterKlingInProgress, klingStatusItems, error, submitCount,
                  fetchContentReq, getTaskReq, fetchVideoReq, concatFromSegmentsReq,
                  concatAfterKlingReq, pollReqs, jobStatus >>

\* a rejection handled without the finally block: the marker stays set
handleRegenerateShotFailedKeepingMarker ==
  /\ UNCHANGED otherState
  /\ regenerateShotReq.active
  /\ error' = "request"
  /\ regenerateShotReq' = NoRegenReq
  /\ UNCHANGED << contentResult, videoResult, storyboardOverride, segmentUrls,
                  timelineOrder, step1Status, step2Status, regeneratingShotIndex,
                  concatInProgress, concatAfterKlingInProgress, klingStatusItems,
                  submitCount, fetchContentReq, getTaskReq, fetchVideoReq,
                  concatFromSegmentsReq, concatAfterKlingReq, pollReqs, jobStatus >>

\* regenerateShot rejected: catch sets the error, finally clears the marker
handleRegenerateShotFailed ==
  /\ UNCHANGED otherState
  /\ regenerateShotReq.active
  /\ error' = "request"
  /\ regeneratingShotIndex' = -1
  /\ regenerateShotReq' = NoRegenReq
  /\ UNCHANGED << contentResult, videoResult, storyboardOverride, segmentUrls,
                  timelineOrder, step1Status, step2Status, concatInProgress,
                  concatAfterKlingInProgress, klingStatusItems, submitCount,
                  fetchContentReq, getTaskReq, fetchVideoReq, concatFromSegmentsReq,
                  concatAfterKlingReq, pollReqs, jobStatus >>


\* ------------------------------------------------------ handleConcatConfirm
\* urlsInvalid without the test for an empty URI
urlsInvalidLengthOnly(u, storyboard) ==
  Len(u) # Len(storyboard)

\* urls.length !== storyboard.length || urls.some((u) => !u?.trim())
urlsInvalid(u, storyboard) ==
  \/ Len(u) # Len(storyboard)
  \/ \E k \in 1..Len(u) : u[k] = 0

\* order.map((i) => urls[i]).filter(Boolean)
RECURSIVE OrderedUrls(_, _)
OrderedUrls(order, u) ==
  IF order = << >> THEN << >>
  ELSE IF InRange0(u, Head(order)) /\ At0(u, Head(order)) # 0
       THEN << At0(u, Head(order)) >> \o OrderedUrls(Tail(order), u)
       ELSE OrderedUrls(Tail(order), u)

\* order.map((origIdx, newPos) => ({ ...storyboard[origIdx], index: newPos + 1 }))
OrderedStoryboard(order, storyboard) ==
  [k \in 1..Len(order) |->
     IF InRange0(storyboard, order[k])
     THEN [At0(storyboard, order[k]) EXCEPT !.index = k]
     ELSE [uid |-> 0, index |-> k, duration_sec |-> -1]]

\* timelineOrder ?? urls.map((_, i) => i)
concatOrder == IF timelineOrder.isNull THEN IdentityOrder(Len(urls)) ELSE timelineOrder.v

\* The handler up to its await.  The confirm button repeats the handler's
\* first test in its disabled attribute; the handler is modelled with its
\* own tests, so that both of its early returns can be taken.
handleConcatConfirm ==
  /\ UNCHANGED otherState
  /\ previewPanelShown
  /\ ~running
  /\ IF urlsInvalid(urls, effectiveStoryboard)
     THEN /\ error' = "validation"
          /\ UNCHANGED << concatInProgress, concatFromSegmentsReq >>
     ELSE IF Len(OrderedUrls(concatOrder, urls))
               # Len(OrderedStoryboard(concatOrder, effectiveStoryboard))
     THEN /\ error' = "order"
          /\ UNCHANGED << concatInProgress, concatFromSegmentsReq >>
     ELSE /\ concatInProgress' = TRUE
          /\ error' = "none"
          /\ concatFromSegmentsReq' =
               [active |-> TRUE,
                segment_urls |-> OrderedUrls(concatOrder, urls),
                storyboard |-> OrderedStoryboard(concatOrder, effectiveStoryboard),
                srcIdx |-> concatOrder,
                closureVideo |-> videoResult,
                urls |-> urls]
  /\ UNCHANGED << contentResult, videoResult, storyboardOverride, segmentUrls,
                  timelineOrder, step1Status, step2Status, regeneratingShotIndex,
                  concatAfterKlingInProgress, klingStatusItems, submitCount,
                  fetchContentReq, getTaskReq, fetchVideoReq, regenerateShotReq,
                  concatAfterKlingReq, pollReqs, jobStatus >>

\* NewVideoResult that keeps the merged artifact the result already has
NewVideoResultKeepingMerged(closureVideo, u, merged) ==
  IF closureVideo.isNull THEN SomeVideo(<< >>, u, merged)
  ELSE IF closureVideo.merged_download_url.isSet THEN closureVideo
       ELSE [closureVideo EXCEPT !.merged_download_url = merged]

\* { ...(videoResult ?? { task_ids: [], download_urls: urls, ... }), merged_download_url }
NewVideoResult(closureVideo, u, merged) ==
  IF closureVideo.isNull THEN SomeVideo(<< >>, u, merged)
  ELSE [closureVideo EXCEPT !.merged_download_url = merged]

\* concatFromSegments resolved; the artifact is named after what it was cut from
handleConcatConfirmDone ==
  /\ UNCHANGED << uploadedVideoClips, protagonists, dispatchReferences, session,
                  uploadCount, userMusicTrack, audioTrackPatch,
                  storyboardPromptEdits,
                  videoMode,
                  jobReferences,
                  shotCharacterNamesList >>
  /\ concatFromSegmentsReq.active
  /\ lastArtifact' = [made |-> TRUE, urls |-> concatFromSegmentsReq.urls,
                      order |-> concatFromSegmentsReq.srcIdx,
                      segment_urls |-> concatFromSegmentsReq.segment_urls]
  /\ LET new == NewVideoResult(concatFromSegmentsReq.closureVideo,
                               concatFromSegmentsReq.urls,
                               Merged(concatFromSegmentsReq.segment_urls))
     IN  /\ videoResult' = new
         /\ klingStatusItems' = PollEffectItems(videoResult, new, klingStatusItems)
         /\ pollReqs' = PollEffectReqs(videoResult, new, pollReqs, jobStatus)
  /\ concatInProgress' = FALSE
  /\ concatFromSegmentsReq' = NoConcatReq
  /\ UNCHANGED << contentResult, storyboardOverride, segmentUrls, timelineOrder,
                  step1Status, step2Status, regeneratingShotIndex,
                  concatAfterKlingInProgress, error, submitCount, fetchContentReq, getTaskReq,
                  fetchVideoReq, regenerateShotReq, concatAfterKlingReq, jobStatus >>

\* a rejection handled without the finally block: the flag stays set
handleConcatConfirmFailedKeepingFlag ==
  /\ UNCHANGED otherState
  /\ concatFromSegmentsReq.active
  /\ error' = "request"
  /\ concatFromSegmentsReq' = NoConcatReq
  /\ UNCHANGED << contentResult, videoResult, storyboardOverride, segmentUrls,
                  timelineOrder, step1Status, step2Status, regeneratingShotIndex,
                  concatInProgress, concatAfterKlingInProgress, klingStatusItems,
                  submitCount, fetchContentReq, getTaskReq, fetchVideoReq,
                  regenerateShotReq, concatAfterKlingReq, pollReqs, jobStatus >>

\* concatFromSegments rejected: catch sets the error, finally clears the flag
handleConcatConfirmFailed ==
  /\ UNCHANGED otherState
  /\ concatFromSegmentsReq.active
  /\ error' = "request"
  /\ concatInProgress' = FALSE
  /\ concatFromSegmentsReq' = NoConcatReq
  /\ UNCHANGED << contentResult, videoResult, storyboardOverride, segmentUrls,
                  timelineOrder, step1Status, step2Status, regeneratingShotIndex,
                  concatAfterKlingInProgress, klingStatusItems, submitCount,
                  fetchContentReq, getTaskReq, fetchVideoReq, regenerateShotReq,
                  concatAfterKlingReq, pollReqs, jobStatus >>

\* ------------------------------------------------------- per-shot status list
\* a list in which one failed job marks every shot as failed
ShotBadgesOfWorst(items) ==
  [k \in 1..Len(items) |->
     IF \E j \in 1..Len(items) : items[j].status = "failed" THEN "isFailed"
     ELSE IF items[k].status = "succeed" THEN "isSuccess"
     ELSE "isProcessing"]

\* klingStatusItems.map((item, idx) => ...): the mark of each shot is that of
\* its own item: isSuccess, isFailed or isProcessing
ShotBadges(items) ==
  [k \in 1..Len(items) |->
     IF items[k].status = "succeed" THEN "isSuccess"
     ELSE IF items[k].status = "failed" THEN "isFailed"
     ELSE IF items[k].status = "processing" THEN "isProcessing"
     ELSE "none"]

\* the status list of the progress box, shown when
\* videoResult.task_ids.length > 0 && !merged_download_url && klingStatusItems.length > 0
statusList ==
  IF /\ ~videoResult.isNull
     /\ Len(videoResult.task_ids) > 0
     /\ ~videoResult.merged_download_url.isSet
     /\ ~klingStatusItems.isNull
     /\ Len(klingStatusItems.items) > 0
  THEN ShotBadges(klingStatusItems.items)
  ELSE << >>

\* --------------------------------------------------- handleConcatAfterKling
\* concatAfterKlingOffered with some() in the place of every()
concatAfterKlingOfferedOnSomeSuccess ==
  /\ ~videoResult.isNull
  /\ Len(videoResult.task_ids) > 0
  /\ ~videoResult.merged_download_url.isSet
  /\ ~klingStatusItems.isNull
  /\ Len(klingStatusItems.items) > 0
  /\ \E k \in 1..Len(klingStatusItems.items) : klingStatusItems.items[k].status = "succeed"

\* klingStatusItems.every((i) => i.status === "succeed") inside the progress box
concatAfterKlingOffered ==
  /\ ~videoResult.isNull
  /\ Len(videoResult.task_ids) > 0
  /\ ~videoResult.merged_download_url.isSet
  /\ ~klingStatusItems.isNull
  /\ Len(klingStatusItems.items) > 0
  /\ \A k \in 1..Len(klingStatusItems.items) : klingStatusItems.items[k].status = "succeed"

handleConcatAfterKling ==
  /\ UNCHANGED otherState
  /\ concatAfterKlingOffered
  /\ ~concatAfterKlingInProgress
  /\ hasScriptContent
  /\ concatAfterKlingInProgress' = TRUE
  /\ error' = "none"
  /\ concatAfterKlingReq' =
       [active |-> TRUE, task_ids |-> videoResult.task_ids,
        storyboard |-> effectiveStoryboard]
  /\ UNCHANGED << contentResult, videoResult, storyboardOverride, segmentUrls,
                  timelineOrder, step1Status, step2Status, regeneratingShotIndex,
                  concatInProgress, klingStatusItems, submitCount, fetchContentReq, getTaskReq,
                  fetchVideoReq, regenerateShotReq, concatFromSegmentsReq,
                  pollReqs, jobStatus >>

\* out.bgm_download_url of a concatAfterKlingTasks answer: none, or the music
\* cut for the merged video
BgmUrls == { 0, 301 }

\* concatAfterKlingTasks resolved: setVideoResult((prev) => prev ? {...} : null)
handleConcatAfterKlingDone ==
  /\ UNCHANGED otherState
  /\ concatAfterKlingReq.active
  /\ \E bgm \in BgmUrls :
       LET new == IF videoResult.isNull THEN NullVideo
                  ELSE [videoResult EXCEPT
                          !.merged_download_url = Merged(concatAfterKlingReq.task_ids),
                          !.bgm_download_url = bgm]
       IN  /\ videoResult' = new
           /\ klingStatusItems' = NullItems
           /\ pollReqs' = PollEffectReqs(videoResult, new, pollReqs, jobStatus)
  /\ concatAfterKlingInProgress' = FALSE
  /\ concatAfterKlingReq' = NoAfterKlingReq
  /\ UNCHANGED << contentResult, storyboardOverride, segmentUrls, timelineOrder,
                  step1Status, step2Status, regeneratingShotIndex, concatInProgress,
                  error, submitCount, fetchContentReq, getTaskReq, fetchVideoReq,
                  regenerateShotReq, concatFromSegmentsReq, jobStatus >>

\* concatAfterKlingTasks rejected
handleConcatAfterKlingFailed ==
  /\ UNCHANGED otherState
  /\ concatAfterKlingReq.active
  /\ error' = "request"
  /\ concatAfterKlingInProgress' = FALSE
  /\ concatAfterKlingReq' = NoAfterKlingReq
  /\ UNCHANGED << contentResult, videoResult, storyboardOverride, segmentUrls,
                  timelineOrder, step1Status, step2Status, regeneratingShotIndex,
                  concatInProgress, klingStatusItems, submitCount, fetchContentReq, getTaskReq,
                  fetchVideoReq, regenerateShotReq, concatFromSegmentsReq,
                  pollReqs, jobStatus >>


\* ---------------------------------------------------------- timeline editor
\* onVideoOrderChange={(ordered) => setTimelineOrder(ordered)}
onVideoOrderChange(ordered) ==
  /\ UNCHANGED otherState
  /\ timelineOrder' = SomeOrder(ordered)
  /\ UNCHANGED << contentResult, videoResult, storyboardOverride, segmentUrls,
                  step1Status, step2Status, regeneratingShotIndex,
                  concatInProgress, concatAfterKlingInProgress, klingStatusItems,
                  error, submitCount, fetchContentReq, getTaskReq, fetchVideoReq,
                  regenerateShotReq, concatFromSegmentsReq, concatAfterKlingReq,
                  pollReqs, jobStatus >>

\* drop positions of TrackRow.handleDrop: whole seconds inside the track area
DropTimes == 0 .. totalTimelineSec

\* a clip of the video track dragged and dropped on the video track
handleDropClipOnTrack(k, startAtSec) ==
  LET clips == mergedVideoClips
  IN  /\ ~running
      /\ k \in 1..Len(clips)
      /\ startAtSec \in DropTimes
      /\ onVideoOrderChange(DropOrder(clips, clips[k].segmentIndex, startAtSec))

\* a media bin item dragged and dropped on the video track
handleDropFromBin(k, startAtSec) ==
  LET items == mediaBinItems
  IN  /\ ~running
      /\ k \in 1..Len(items)
      /\ startAtSec \in DropTimes
      /\ onVideoOrderChange(DropOrder(mergedVideoClips, items[k].segmentIndex, startAtSec))

\* onRemoveClip={(_trackId, clipId) => setUploadedVideoClips((prev) => prev.filter(...))}
onRemoveClip(clipId) ==
  /\ uploadedVideoClips' = ClipsWithoutId(uploadedVideoClips, clipId)
  /\ UNCHANGED << contentResult, videoResult, storyboardOverride, segmentUrls,
                  timelineOrder, step1Status, step2Status, regeneratingShotIndex,
                  concatInProgress, concatAfterKlingInProgress, klingStatusItems,
                  error, submitCount, fetchContentReq, getTaskReq, fetchVideoReq,
                  regenerateShotReq, concatFromSegmentsReq, concatAfterKlingReq,
                  pollReqs, jobStatus, protagonists, dispatchReferences, session,
                  uploadCount, lastArtifact, userMusicTrack, audioTrackPatch,
                  storyboardPromptEdits,
                  videoMode,
                  jobReferences,
                  shotCharacterNamesList >>

\* handleRemoveClip without the branch for clips that show no segment
handleRemoveClipAsShot(k) ==
  LET clips == mergedVideoClips
  IN  /\ k \in 1..Len(clips)
      /\ onVideoOrderChange(RemoveOrder(clips, clips[k].id))

\* the remove button of a video clip (it has no disabled attribute)
handleRemoveClip(k) ==
  LET clips == mergedVideoClips
  IN  /\ k \in 1..Len(clips)
      /\ IF clips[k].segmentIndex < 0
         THEN onRemoveClip(clips[k].id)
         ELSE onVideoOrderChange(RemoveOrder(clips, clips[k].id))

\* Assets a drag payload of the media bin's type can describe with a negative
\* segmentIndex.  The bin of this page lists generated segments only, so such
\* a payload comes from a drag started outside it.
UploadedAssets == { [id |-> << -1, 1 >>, url |-> 201, durationSec |-> 2] }

\* the times uploaded assets are dropped at: inside the first clip
UploadTimes == { 1 }

\* handleDropFromBin with data.segmentIndex < 0, and the page's
\* onUploadedClipDrop: the clip is kept at the time it was dropped at
onUploadedClipDrop(clip, startAtSec) ==
  /\ ~running
  /\ uploadCount < MaxUploads
  /\ uploadCount' = uploadCount + 1
  /\ startAtSec \in DropTimes
  /\ uploadedVideoClips' =
       Append(uploadedVideoClips,
              [id |-> clip.id, segmentIndex |-> -1, url |-> clip.url,
               durationSec |-> clip.durationSec, startAtSec |-> startAtSec])
  /\ UNCHANGED << contentResult, videoResult, storyboardOverride, segmentUrls,
                  timelineOrder, step1Status, step2Status, regeneratingShotIndex,
                  concatInProgress, concatAfterKlingInProgress, klingStatusItems,
                  error, submitCount, fetchContentReq, getTaskReq, fetchVideoReq,
                  regenerateShotReq, concatFromSegmentsReq, concatAfterKlingReq,
                  pollReqs, jobStatus, protagonists, dispatchReferences, session,
                  lastArtifact, userMusicTrack, audioTrackPatch,
                  storyboardPromptEdits,
                  videoMode,
                  jobReferences,
                  shotCharacterNamesList >>

\* ---------------------------------------------------------- handleAddMusic
\* audio.duration || 0 of the file chosen: unknown, or its length in seconds
\* ------------------------------------------------------------ prompt boxes
\* onChange of a shot's prompt textarea, disabled while running:
\* setStoryboardPromptEdits((prev) => ({ ...prev, [s.index]: e.target.value }))
onPromptChange(index, text) ==
  /\ ~running
  /\ \E k \in 1..Len(effectiveStoryboard) : effectiveStoryboard[k].index = index
  /\ storyboardPromptEdits' =
       [k \in DOMAIN storyboardPromptEdits \cup { index } |->
          IF k = index THEN text ELSE storyboardPromptEdits[k]]
  /\ UNCHANGED << contentResult, videoResult, storyboardOverride, segmentUrls,
                  timelineOrder, step1Status, step2Status, regeneratingShotIndex,
                  concatInProgress, concatAfterKlingInProgress, klingStatusItems,
                  error, submitCount, fetchContentReq, getTaskReq, fetchVideoReq,
                  regenerateShotReq, concatFromSegmentsReq, concatAfterKlingReq,
                  pollReqs, jobStatus, uploadedVideoClips, protagonists,
                  dispatchReferences, session, uploadCount, lastArtifact,
                  userMusicTrack, audioTrackPatch,
                  videoMode,
                  jobReferences,
                  shotCharacterNamesList >>

\* ------------------------------------------------------ character boxes
\* onChange of a character checkbox of a shot, disabled while running; the
\* boxes offered are the character rows
toggleShotCharacter(shotIndex, name) ==
  /\ ~running
  /\ \E k \in 1..Len(effectiveStoryboard) : effectiveStoryboard[k].index = shotIndex
  /\ name \in 1..Len(protagonists)
  /\ shotCharacterNamesList' =
       [k \in DOMAIN shotCharacterNamesList \cup { shotIndex } |->
          IF k = shotIndex
          THEN (IF \E i \in 1..Len(SelectedCharactersFor(shotCharacterNamesList, shotIndex)) :
                     SelectedCharactersFor(shotCharacterNamesList, shotIndex)[i] = name
                THEN WithoutName(SelectedCharactersFor(shotCharacterNamesList, shotIndex), name)
                ELSE Append(SelectedCharactersFor(shotCharacterNamesList, shotIndex), name))
          ELSE shotCharacterNamesList[k]]
  /\ UNCHANGED << contentResult, videoResult, storyboardOverride, segmentUrls,
                  timelineOrder, step1Status, step2Status, regeneratingShotIndex,
                  concatInProgress, concatAfterKlingInProgress, klingStatusItems,
                  error, submitCount, fetchContentReq, getTaskReq, fetchVideoReq,
                  regenerateShotReq, concatFromSegmentsReq, concatAfterKlingReq,
                  pollReqs, jobStatus, uploadedVideoClips, protagonists,
                  dispatchReferences, session, uploadCount, lastArtifact,
                  userMusicTrack, audioTrackPatch, storyboardPromptEdits,
                  videoMode, jobReferences >>

MusicDurations == { 0, 30 }

\* the "add music" file input (disabled={running}); onloadedmetadata or onerror
handleAddMusic(durationSec) ==
  /\ ~running
  /\ userMusicTrack' = [isNull |-> FALSE, url |-> 401, durationSec |-> durationSec]
  /\ UNCHANGED << contentResult, videoResult, storyboardOverride, segmentUrls,
                  timelineOrder, step1Status, step2Status, regeneratingShotIndex,
                  concatInProgress, concatAfterKlingInProgress, klingStatusItems,
                  error, submitCount, fetchContentReq, getTaskReq, fetchVideoReq,
                  regenerateShotReq, concatFromSegmentsReq, concatAfterKlingReq,
                  pollReqs, jobStatus, uploadedVideoClips, protagonists,
                  dispatchReferences, session, uploadCount, lastArtifact,
                  audioTrackPatch,
                  storyboardPromptEdits,
                  videoMode,
                  jobReferences,
                  shotCharacterNamesList >>

\* ------------------------------------------- handleVolumeChange / MuteToggle
AudioTrackIds == { "audio-bgm", "audio-voice", "audio-user-music" }

\* positions of the range input (min 0, max 100), in percent
Volumes == { 0, 100 }

\* the row of an audio track is rendered
AudioTrackShown(trackId) ==
  \E k \in 1..Len(mergedAudioTracks) : mergedAudioTracks[k].id = trackId

AudioTrackById(tracks, trackId) ==
  CHOOSE t \in { tracks[k] : k \in 1..Len(tracks) } : t.id = trackId

\* onAudioTrackChange?.(trackId, patch): the page hands no onAudioTrackChange
\* to the editor, so the patch reaches no state of the page
onAudioTrackChange(patch) ==
  /\ audioTrackPatch' = patch
  /\ UNCHANGED << contentResult, videoResult, storyboardOverride, segmentUrls,
                  timelineOrder, step1Status, step2Status, regeneratingShotIndex,
                  concatInProgress, concatAfterKlingInProgress, klingStatusItems,
                  error, submitCount, fetchContentReq, getTaskReq, fetchVideoReq,
                  regenerateShotReq, concatFromSegmentsReq, concatAfterKlingReq,
                  pollReqs, jobStatus, uploadedVideoClips, protagonists,
                  dispatchReferences, session, uploadCount, lastArtifact,
                  userMusicTrack,
                  storyboardPromptEdits,
                  videoMode,
                  jobReferences,
                  shotCharacterNamesList >>

\* the volume slider of an audio track (disabled={disabled})
handleVolumeChange(trackId, volume) ==
  /\ ~running
  /\ AudioTrackShown(trackId)
  /\ onAudioTrackChange([trackId |-> trackId, volume |-> volume, muted |-> "absent"])

\* the mute button of an audio track: onMuteToggle?.(track.id, !track.muted)
handleMuteToggle(trackId) ==
  /\ AudioTrackShown(trackId)
  /\ onAudioTrackChange(
       [trackId |-> trackId, volume |-> -1,
        muted |-> IF AudioTrackById(mergedAudioTracks, trackId).muted
                  THEN "false" ELSE "true"])

\* ------------------------------------------------------------ poll loop
\* a tick of setInterval(poll, 5000): one more getKlingTaskStatus in flight
pollTick ==
  /\ UNCHANGED otherState
  /\ PollActive(videoResult)
  /\ Cardinality({ p \in pollReqs : ~p.cancelled }) < MaxPolls
  /\ pollReqs' = pollReqs \cup { PollRequest(videoResult.task_ids, jobStatus) }
  /\ UNCHANGED << contentResult, videoResult, storyboardOverride, segmentUrls,
                  timelineOrder, step1Status, step2Status, regeneratingShotIndex,
                  concatInProgress, concatAfterKlingInProgress, klingStatusItems,
                  error, submitCount, fetchContentReq, getTaskReq, fetchVideoReq,
                  regenerateShotReq, concatFromSegmentsReq, concatAfterKlingReq,
                  jobStatus >>

\* a getKlingTaskStatus call resolved: if (!cancelled) setKlingStatusItems(data.items)
pollDone(p) ==
  /\ UNCHANGED otherState
  /\ p \in pollReqs
  /\ pollReqs' = pollReqs \ { p }
  /\ klingStatusItems' = IF p.cancelled THEN klingStatusItems ELSE SomeItems(p.items)
  /\ UNCHANGED << contentResult, videoResult, storyboardOverride, segmentUrls,
                  timelineOrder, step1Status, step2Status, regeneratingShotIndex,
                  concatInProgress, concatAfterKlingInProgress, error, submitCount,
                  fetchContentReq, getTaskReq, fetchVideoReq, regenerateShotReq,
                  concatFromSegmentsReq, concatAfterKlingReq, jobStatus >>

\* a getKlingTaskStatus call rejected: catch (_) {}
pollFailed(p) ==
  /\ UNCHANGED otherState
  /\ p \in pollReqs
  /\ pollReqs' = pollReqs \ { p }
  /\ UNCHANGED << contentResult, videoResult, storyboardOverride, segmentUrls,
                  timelineOrder, step1Status, step2Status, regeneratingShotIndex,
                  concatInProgress, concatAfterKlingInProgress, klingStatusItems,
                  error, submitCount, fetchContentReq, getTaskReq, fetchVideoReq,
                  regenerateShotReq, concatFromSegmentsReq, concatAfterKlingReq,
                  jobStatus >>

\* The page is left (the cleanup of the polling effect runs: cancelled = true,
\* clearInterval) and opened again later on the URL of the saved task: a new
\* instance with the initial state of every useState, whose load effect calls
\* getTask.  The requests of the instance that was left answer to no state.
\* The provider keeps its jobs.
remount ==
  /\ session < MaxSessions
  /\ session' = session + 1
  /\ contentResult' = NullContent
  /\ videoResult' = NullVideo
  /\ storyboardOverride' = NullStoryboard
  /\ segmentUrls' = << >>
  /\ timelineOrder' = NullOrder
  /\ step1Status' = "pending"
  /\ step2Status' = "pending"
  /\ regeneratingShotIndex' = -1
  /\ concatInProgress' = FALSE
  /\ concatAfterKlingInProgress' = FALSE
  /\ klingStatusItems' = NullItems
  /\ error' = "none"
  /\ fetchContentReq' = FALSE
  /\ getTaskReq' = TRUE
  /\ fetchVideoReq' = NoVideoReq
  /\ regenerateShotReq' = NoRegenReq
  /\ concatFromSegmentsReq' = NoConcatReq
  /\ concatAfterKlingReq' = NoAfterKlingReq
  /\ pollReqs' = {}
  /\ uploadedVideoClips' = << >>
  /\ protagonists' = << 0 >>
  /\ userMusicTrack' = NoMusic
  /\ audioTrackPatch' = NoPatch
  /\ storyboardPromptEdits' = NoEdits
  /\ shotCharacterNamesList' = NoSelections
  /\ UNCHANGED << submitCount, jobStatus, dispatchReferences, uploadCount,
                  lastArtifact, videoMode,
                  jobReferences >>

\* provider side: a processing job reaches one of its terminal states
providerProgress(t, outcome) ==
  /\ UNCHANGED otherState
  /\ t \in DOMAIN jobStatus
  /\ jobStatus[t] = "processing"
  /\ jobStatus' = [jobStatus EXCEPT ![t] = outcome]
  /\ UNCHANGED << contentResult, videoResult, storyboardOverride, segmentUrls,
                  timelineOrder, step1Status, step2Status, regeneratingShotIndex,
                  concatInProgress, concatAfterKlingInProgress, klingStatusItems,
                  error, submitCount, fetchContentReq, getTaskReq, fetchVideoReq,
                  regenerateShotReq, concatFromSegmentsReq, concatAfterKlingReq,
                  pollReqs >>

\* ------------------------------------------------------------------ Next
\* a new creation: script in, storyboard out
Submitting ==
  \/ handleSubmit
  \/ handleSubmitContent
  \/ handleSubmitNotScript
  \/ handleSubmitFailed

\* the page opened on a saved task
Loading ==
  \/ loadTask
  \/ loadTaskFailed

\* dispatch of the render jobs, shot deletion
Dispatching ==
  \/ \E p \in 0 .. (MaxShots - 1) : handleDeleteShot(p)
  \/ handleGenerateVideo
  \/ handleGenerateVideoDone
  \/ handleGenerateVideoFailed

\* shot deletion alone
Deleting ==
  \E p \in 0 .. (MaxShots - 1) : handleDeleteShot(p)

\* the provider selects the generation mode of a dispatch
Selecting ==
  \E prefers \in BOOLEAN, advisory \in AdvisoryAnswers :
    selectModeForRequest(prefers, advisory)

\* typing in the prompt boxes
Prompting ==
  \E index \in 1 .. MaxShots, text \in PromptTexts : onPromptChange(index, text)

\* characters ticked and unticked for a shot
Choosing ==
  \E shotIndex \in 1 .. MaxShots, name \in 1 .. MaxCharacters :
    toggleShotCharacter(shotIndex, name)

\* per-shot regeneration
Regeneration ==
  \/ \E i \in 0 .. (MaxShots - 1) : handleRegenerateShot(i)
  \/ handleRegenerateShotDone
  \/ handleRegenerateShotFailed

\* merge of the segments ("confirm and cut")
Merging ==
  \/ handleConcatConfirm
  \/ handleConcatConfirmDone
  \/ handleConcatConfirmFailed

\* timeline editing
Editing ==
  \/ \E k \in 1 .. (MaxShots + MaxUploads), t \in DropTimes : handleDropClipOnTrack(k, t)
  \/ \E k \in 1 .. MaxShots, t \in DropTimes : handleDropFromBin(k, t)
  \/ \E k \in 1 .. (MaxShots + MaxUploads) : handleRemoveClip(k)

\* the seconds at which a clip of the track begins, and the end of the ruler
ClipStartTimes ==
  LET clips == mergedVideoClips
  IN  { clips[k].startAtSec : k \in 1..Len(clips) } \cup { totalTimelineSec }

\* the clips of the track dragged to the start of a clip or to the end of the
\* ruler, or removed from the track
TrackEditing ==
  \/ \E k \in 1 .. (MaxShots + MaxUploads), t \in ClipStartTimes : handleDropClipOnTrack(k, t)
  \/ \E k \in 1 .. (MaxShots + MaxUploads) : handleRemoveClip(k)

\* uploaded assets dropped on the video track
Uploading ==
  \E clip \in UploadedAssets, t \in UploadTimes : onUploadedClipDrop(clip, t)

\* the page left and opened again on the saved task
Leaving ==
  remount

\* character rows
Casting ==
  \E k \in 1 .. 1, dataUrl \in Images : onProtagonistFileChange(k, dataUrl)

\* character rows added, and a reference image chosen for any of them
Recruiting ==
  \/ addProtagonist
  \/ \E k \in 1 .. MaxCharacters, dataUrl \in Images : onProtagonistFileChange(k, dataUrl)

\* music added to the timeline
Scoring ==
  \E d \in MusicDurations : handleAddMusic(d)

\* the controls of the audio tracks
Mixing ==
  \/ \E id \in AudioTrackIds, v \in Volumes : handleVolumeChange(id, v)
  \/ \E id \in AudioTrackIds : handleMuteToggle(id)

\* job status tracking and merge after all jobs succeeded
Tracking ==
  \/ handleConcatAfterKling
  \/ handleConcatAfterKlingDone
  \/ handleConcatAfterKlingFailed
  \/ pollTick
  \/ \E p \in pollReqs : pollDone(p)
  \/ \E p \in pollReqs : pollFailed(p)
  \/ \E t \in DOMAIN jobStatus, outcome \in { "succeed", "failed" } : providerProgress(t, outcome)

Next ==
  \/ Submitting \/ Loading \/ Dispatching \/ Regeneration \/ Merging \/ Editing
  \/ Tracking \/ Casting \/ Uploading \/ Leaving \/ Scoring \/ Mixing
  \/ Prompting \/ Selecting \/ Recruiting \/ Choosing

Spec == Init /\ [][Next]_vars

\* new creations, dispatched and merged
NextMerge == Submitting \/ Dispatching \/ Merging

SpecMerge == Init /\ [][NextMerge]_vars

\* the content request of a new creation is answered: fetchContent resolves
\* with a script, resolves with another pipeline, or rejects
fetchContentAnswered == handleSubmitContent \/ handleSubmitNotScript \/ handleSubmitFailed

\* new creations whose content request is always answered in the end
SpecSubmitFair == Init /\ [][NextMerge]_vars /\ WF_vars(fetchContentAnswered)

\* a saved task whose timeline is edited
NextTimeline == Loading \/ Dispatching \/ Editing

SpecTimeline == Init /\ [][NextTimeline]_vars

\* a saved task whose timeline is edited and whose segments are merged
NextEdit == Loading \/ Dispatching \/ Merging \/ Editing

SpecEdit == Init /\ [][NextEdit]_vars

\* a saved task whose shots are regenerated and whose segments are merged
NextRegen == Loading \/ Dispatching \/ Regeneration \/ Merging

SpecRegen == Init /\ [][NextRegen]_vars

\* a saved task whose jobs are tracked, with regeneration
NextJobs == Loading \/ Dispatching \/ Regeneration \/ Tracking

SpecJobs == Init /\ [][NextJobs]_vars

\* a saved task whose timeline holds generated and uploaded clips
NextUpload == Loading \/ TrackEditing \/ Uploading

SpecUpload == Init /\ [][NextUpload]_vars

\* a saved task whose jobs are tracked while shots are deleted
NextTrack == Loading \/ Deleting \/ Tracking

SpecTrack == Init /\ [][NextTrack]_vars

\* a saved task whose jobs are tracked over several sessions
NextResume == Loading \/ Tracking \/ Leaving

SpecResume == Init /\ [][NextResume]_vars

\* a saved task whose character rows change between dispatch and regeneration
NextCast == Loading \/ Dispatching \/ Regeneration \/ Casting

SpecCast == Init /\ [][NextCast]_vars

\* a saved task whose shots are regenerated while its jobs are tracked
NextRetake == Loading \/ Regeneration \/ Tracking

SpecRetake == Init /\ [][NextRetake]_vars

\* a saved task whose segments are merged again and again between edits
NextRemerge == Loading \/ Merging \/ TrackEditing

SpecRemerge == Init /\ [][NextRemerge]_vars

\* a saved task merged after its jobs, with music and uploaded clips
NextAudio == Loading \/ Tracking \/ Uploading \/ Scoring

SpecAudio == Init /\ [][NextAudio]_vars

\* a saved task merged after its jobs, whose audio tracks are mixed
NextMix == Loading \/ Tracking \/ Scoring \/ Mixing

SpecMix == Init /\ [][NextMix]_vars

\* the prompt boxes, shot deletion and the regeneration request of a stored task
Retaking ==
  \E i \in 0 .. (MaxShots - 1) : handleRegenerateShot(i)

NextPrompt == Loading \/ Deleting \/ Prompting \/ Retaking

SpecPrompt == Init /\ [][NextPrompt]_vars

\* a saved task whose shots get prompts and characters and are deleted
NextChoose == Loading \/ Deleting \/ Prompting \/ Choosing \/ addProtagonist

SpecChoose == Init /\ [][NextChoose]_vars

\* dispatches of stored storyboards, with and without a reference image,
\* and the mode the provider selects for each
NextSelect == Loading \/ Dispatching \/ Casting \/ Selecting

SpecSelect == Init /\ [][NextSelect]_vars

\* dispatches of stored storyboards for one or several characters
NextDispatch == Loading \/ Dispatching \/ Recruiting

SpecDispatch == Init /\ [][NextDispatch]_vars

\* the dispatch alone
Rendering ==
  \/ handleGenerateVideo
  \/ handleGenerateVideoDone
  \/ handleGenerateVideoFailed

\* the poll loop and the provider's progress
Polling ==
  \/ pollTick
  \/ \E p \in pollReqs : pollDone(p)
  \/ \E p \in pollReqs : pollFailed(p)
  \/ \E t \in DOMAIN jobStatus, outcome \in { "succeed", "failed" } : providerProgress(t, outcome)

\* the jobs of a dispatch, or of a stored task, each going its own way
NextFate == Loading \/ Rendering \/ Polling

SpecFate == Init /\ [][NextFate]_vars

\* a stored task whose jobs are tracked and whose segments are merged, by
\* either of the two merge actions
NextMerges == Loading \/ Merging \/ Tracking

SpecMerges == Init /\ [][NextMerges]_vars

\* a saved task whose jobs are tracked until a merge ends them, the page is
\* left or a new creation is started (its content request awaited)
NextPolls == Loading \/ Tracking \/ Leaving \/ handleSubmit

SpecPolls == Init /\ [][NextPolls]_vars

\* ================================================================= claims
\* steps of the timeline editor that reorder the video track
dropStep ==
  \E k \in 1 .. (MaxShots + MaxUploads), t \in DropTimes :
    handleDropClipOnTrack(k, t) \/ handleDropFromBin(k, t)

\* a step that stores a new order at least as long as the track: a drop (a
\* removal stores a shorter order, no other step stores one)
reorderStep ==
  /\ timelineOrder' # timelineOrder
  /\ Len(timelineOrder'.v) >= Len(mergedVideoClips)

\* the segment URIs of the video track, in track order
TrackUrls == [k \in 1..Len(mergedVideoClips) |-> mergedVideoClips[k].url]

\* the track order as the claims define it when no clip is shown
TrackOrder ==
  IF hasSegments THEN OrderOfClips(mergedVideoClips)
  ELSE IdentityOrder(Len(videoResult.task_ids))

\* the job ids taken in an order of positions
TasksInOrder(order, tasks) ==
  [k \in 1..Len(order) |-> IF InRange0(tasks, order[k]) THEN At0(tasks, order[k]) ELSE 0]

\* ---- C1
\* C1: every merge request, started by handleConcatConfirm or by
\* handleConcatAfterKling, lists the segments in the order the video track
\* has at the moment of the call.
C1_MergeInTrackOrder ==
  [][ /\ (handleConcatConfirm /\ concatFromSegmentsReq'.active)
           => concatFromSegmentsReq'.segment_urls = TrackUrls
      /\ handleConcatAfterKling
           => concatAfterKlingReq'.task_ids = TasksInOrder(TrackOrder, videoResult.task_ids)
    ]_vars

\* ---- C2
\* every live shot has a non-empty segment URI
EveryShotHasSegment ==
  /\ Len(urls) = Len(effectiveStoryboard)
  /\ \A k \in 1..Len(urls) : urls[k] # 0

\* the storyboard sent holds every live shot exactly once
OneEntryPerLiveShot(sent) ==
  /\ Len(sent) = Len(effectiveStoryboard)
  /\ \A j \in 1..Len(effectiveStoryboard) :
       Cardinality({ k \in 1..Len(sent) : sent[k].uid = effectiveStoryboard[j].uid }) = 1

\* C2: a merge request is sent only when every live shot has a non-empty
\* segment URI, and it carries exactly one segment per live shot.
C2_MergeCoversEveryLiveShot ==
  [][ /\ (handleConcatConfirm /\ concatFromSegmentsReq'.active)
           => /\ EveryShotHasSegment
              /\ Len(concatFromSegmentsReq'.segment_urls) = Len(effectiveStoryboard)
              /\ OneEntryPerLiveShot(concatFromSegmentsReq'.storyboard)
      /\ handleConcatAfterKling
           => /\ Len(concatAfterKlingReq'.task_ids) = Len(effectiveStoryboard)
              /\ OneEntryPerLiveShot(concatAfterKlingReq'.storyboard)
    ]_vars

\* ---- C3
\* the precondition of the claim, in its words
C3_ListMismatch == Len(urls) # Len(effectiveStoryboard)

C3_EmptyUri == \E k \in 1..Len(urls) : urls[k] = 0

\* C3: when the segment-URI list has a length different from the live-shot
\* count, or contains an empty URI, handleConcatConfirm fails with the
\* validation error, sends no concat request and leaves videoResult unchanged.
C3_InvalidListRejected ==
  [][ (handleConcatConfirm /\ (C3_ListMismatch \/ C3_EmptyUri))
        => /\ error' = "validation"
           /\ concatFromSegmentsReq' = concatFromSegmentsReq
           /\ ~concatFromSegmentsReq'.active
           /\ ~concatInProgress'
           /\ videoResult' = videoResult
    ]_vars

\* the handler has refused a list whose length differs from the shot count
C3_Witness ==
  /\ error = "validation"
  /\ C3_ListMismatch
  /\ ~C3_EmptyUri
  /\ ~concatFromSegmentsReq.active

\* ---- C4
\* duration of the shot a clip shows, read from the storyboard
ShotDurationSec(storyboard, clip) ==
  LET shot == At0(storyboard, clip.segmentIndex)
  IN  IF shot.duration_sec = -1 THEN DefaultDurationSec ELSE shot.duration_sec

RECURSIVE SumShotDurations(_, _, _)
SumShotDurations(storyboard, clips, n) ==
  IF n = 0 THEN 0
  ELSE SumShotDurations(storyboard, clips, n - 1) + ShotDurationSec(storyboard, clips[n])

OffsetsOf(clips) == [k \in 1..Len(clips) |-> clips[k].startAtSec]

\* the page hands the stored order to buildTimelineFromSegments
RebuiltWithStoredOrder ==
  /\ hasSegments
  /\ ~timelineOrder.isNull
  /\ orderOption = timelineOrder

\* C4: after any reorder of the video track (a drop followed by
\* buildTimelineFromSegments with the new order) the start offset of the k-th
\* clip is the sum of the durations of the clips before it in the new order,
\* the first clip starting at 0; a reorder to the order the track has leaves
\* all offsets unchanged.
C4_OffsetsArePrefixSums ==
  [][ reorderStep
        => \A u \in { urls' }, storyboard \in { effectiveStoryboard' },
              old \in { mergedVideoClips } :
             \A new \in { TimelineClipsOf(u, storyboard, timelineOrder') } :
               /\ \A k \in 1..Len(new) :
                    new[k].startAtSec = SumShotDurations(storyboard, new, k - 1)
               /\ RebuiltWithStoredOrder'
                    => /\ OrderOfClips(new) = timelineOrder'.v
                       /\ timelineOrder'.v = OrderOfClips(old)
                            => OffsetsOf(new) = OffsetsOf(old)
    ]_vars

\* the third of three shots of 1, 2 and 3 seconds was dropped at time 0
C4_Witness ==
  /\ RebuiltWithStoredOrder
  /\ OrderOfClips(timelineClips) = << 2, 0, 1 >>
  /\ OffsetsOf(timelineClips) = << 0, 3, 4 >>

\* ---- C5
\* number of occurrences of v in s
Count(s, v) == Cardinality({ k \in 1..Len(s) : s[k] = v })

SameMultiset(a, b) ==
  /\ Len(a) = Len(b)
  /\ \A k \in 1..Len(a) : Count(a, a[k]) = Count(b, a[k])

\* C5: for every drop on the video track the order handed to
\* onVideoOrderChange has the multiset of shot indices the track had before
\* the drop.
C5_DropKeepsMultiset ==
  [][ (timelineOrder' # timelineOrder /\ dropStep) => SameMultiset(timelineOrder'.v, OrderOfClips(mergedVideoClips)) ]_vars

\* ---- C6
\* position (1-based) of the first clip whose start + duration exceeds t, or 0
RECURSIVE FirstEndingAfter(_, _, _)
FirstEndingAfter(clips, t, k) ==
  IF k > Len(clips) THEN 0
  ELSE IF clips[k].startAtSec + clips[k].durationSec > t THEN k
       ELSE FirstEndingAfter(clips, t, k + 1)

\* s with v placed immediately before the element w
RECURSIVE InsertBefore(_, _, _)
InsertBefore(s, v, w) ==
  IF s = << >> THEN << v >>
  ELSE IF Head(s) = w THEN << v >> \o s
       ELSE << Head(s) >> \o InsertBefore(Tail(s), v, w)

\* the order the claim asks for when segment seg is dropped at time t
PlacedOrder(clips, seg, t) ==
  LET order == OrderOfClips(clips)
      j == FirstEndingAfter(clips, t, 1)
  IN  IF j = 0 THEN FilterNotEqual(order, seg) \o << seg >>
      ELSE IF order[j] = seg THEN order
           ELSE InsertBefore(FilterNotEqual(order, seg), seg, order[j])

\* C6: a clip dropped on the video track at time t is placed immediately
\* before the first clip on the track whose start + duration exceeds t, and
\* at the end when there is none, for every clip, time and direction.
C6_DropPlacement ==
  [][ \A k \in 1 .. MaxShots, t \in DropTimes :
        handleDropClipOnTrack(k, t)
          => timelineOrder'.v = PlacedOrder(mergedVideoClips, mergedVideoClips[k].segmentIndex, t)
    ]_vars

\* ---- C7
TimingOf(clips) == [k \in 1..Len(clips) |-> << clips[k].durationSec, clips[k].startAtSec >>]

\* C7: a successful regenerateShot for the shot at position k replaces the
\* segment URI at position k only; every other URI, the timeline order and
\* the durations and start offsets of all clips are unchanged.
C7_RegenerationFrame ==
  [][ handleRegenerateShotDone
        => /\ Len(urls') = Len(urls)
           /\ \A j \in 1..Len(urls) :
                j # regenerateShotReq.shotIndex + 1 => urls'[j] = urls[j]
           /\ timelineOrder' = timelineOrder
           /\ TimingOf(timelineClips') = TimingOf(timelineClips)
    ]_vars

\* ---- C8
\* the URI stored for the live shot at position j (1-based), 0 when none
UriAt(u, j) == IF j <= Len(u) THEN u[j] ELSE 0

\* C8: when other operations run while a regeneration is in flight, the URI
\* that arrives is stored for the shot the regeneration was requested for,
\* and no other shot's URI is changed.
C8_RegenerationKeepsItsShot ==
  [][ handleRegenerateShotDone
        => \A j \in 1..Len(effectiveStoryboard) :
             IF effectiveStoryboard[j].uid = regenerateShotReq.uid
             THEN UriAt(urls', j) = RegenUriOfShot(effectiveStoryboard[j])
             ELSE UriAt(urls', j) = UriAt(urls, j)
    ]_vars

\* ---- C9
\* C9: once the tracked status of a job is succeed or failed, no later poll
\* result changes its status or its result URI.
C9_TerminalStatusIsFinal ==
  [][ \A a \in 1..Len(klingStatusItems.items), b \in 1..Len(klingStatusItems'.items) :
        ( /\ klingStatusItems.items[a].task_id = klingStatusItems'.items[b].task_id
          /\ klingStatusItems.items[a].status \in { "succeed", "failed" } )
          => /\ klingStatusItems'.items[b].status = klingStatusItems.items[a].status
             /\ klingStatusItems'.items[b].url = klingStatusItems.items[a].url
    ]_vars

\* ---- C10
\* the segment of the shot at position k (1-based) is a regenerated one
Regenerated(u, storyboard, k) ==
  /\ k <= Len(u)
  /\ k <= Len(storyboard)
  /\ u[k] = RegenUriOfShot(storyboard[k])

\* C10: after a successful regeneration of a shot, the status shown for it
\* and the segment merged for it are those of the replacement job.
C10_ReplacementJobConsulted ==
  [][ /\ \A k \in 1..Len(klingStatusItems'.items) :
           Regenerated(urls', effectiveStoryboard', k)
             => ResultUriOfTask(klingStatusItems'.items[k].task_id) = urls'[k]
      /\ handleConcatAfterKling
           => \A k \in 1..Len(concatAfterKlingReq'.task_ids) :
                Regenerated(urls, effectiveStoryboard, k)
                  => ResultUriOfTask(concatAfterKlingReq'.task_ids[k]) = urls[k]
    ]_vars

\* ---- C11
\* the shots carry the indices 1..n, each once, in increasing order
DenseIndices(list) == \A k \in 1..Len(list) : list[k].index = k

\* list holds shots of original, in the order they have in original
RECURSIVE IsSubsequence(_, _)
IsSubsequence(list, original) ==
  IF list = << >> THEN TRUE
  ELSE IF original = << >> THEN FALSE
  ELSE IF Head(list).uid = Head(original).uid
       THEN IsSubsequence(Tail(list), Tail(original))
       ELSE IsSubsequence(list, Tail(original))

\* C11: after any sequence of handleDeleteShot calls the remaining shots
\* carry the indices 1..n exactly once each, in increasing order, and keep
\* the relative order they had before the deletions.
C11_DeleteRenumbersDensely ==
  ~storyboardOverride.isNull
    => /\ DenseIndices(storyboardOverride.list)
       /\ IsSubsequence(storyboardOverride.list, contentResult.storyboard)
       /\ Len(storyboardOverride.list) < Len(contentResult.storyboard)

\* the first and the last of three shots were deleted
C11_Witness ==
  /\ ~storyboardOverride.isNull
  /\ Len(contentResult.storyboard) = 3
  /\ Len(storyboardOverride.list) = 1
  /\ storyboardOverride.list[1].uid = contentResult.storyboard[2].uid
  /\ storyboardOverride.list[1].index = 1

\* ---- C12
\* the remove button of the k-th clip of the track, which shows a live shot
removeShotClipStep(k) ==
  /\ k \in 1..Len(mergedVideoClips)
  /\ mergedVideoClips[k].segmentIndex >= 0
  /\ handleRemoveClip(k)

\* C12: removing from the video track a clip that maps to a live shot
\* deletes that shot from the storyboard with dense renumbering of the rest;
\* afterwards the storyboard, the segment-URI list and the video track each
\* hold one entry fewer and agree on the set of live shots.
C12_RemoveClipDeletesShot ==
  [][ \A k \in 1 .. (MaxShots + MaxUploads) :
        removeShotClipStep(k)
          => /\ Len(effectiveStoryboard') = Len(effectiveStoryboard) - 1
             /\ DenseIndices(effectiveStoryboard')
             /\ Len(urls') = Len(urls) - 1
             /\ Len(mergedVideoClips') = Len(mergedVideoClips) - 1
             /\ Len(urls') = Len(effectiveStoryboard')
    ]_vars

\* ---- C13
\* order holds every live shot position (0-based) exactly once, nothing else
IsOrderOfLiveShots(order, storyboard) ==
  /\ Len(order) = Len(storyboard)
  /\ \A i \in 0 .. (Len(storyboard) - 1) : Count(order, i) = 1

\* C13: a reorder whose member set differs from the current set of live shot
\* indices (a missing, extra, duplicated or negative entry) is rejected: the
\* stored timeline order stays what it was before the call.
C13_InvalidReorderRejected ==
  [][ timelineOrder' # timelineOrder
        => IsOrderOfLiveShots(timelineOrder'.v, effectiveStoryboard) ]_vars

\* ---- C14
RECURSIVE SumClipDurations(_, _)
SumClipDurations(clips, n) ==
  IF n = 0 THEN 0 ELSE SumClipDurations(clips, n - 1) + clips[n].durationSec

\* every clip starts where the clips before it end: no gap, no overlap
StartsArePrefixSums(clips) ==
  \A k \in 1..Len(clips) : clips[k].startAtSec = SumClipDurations(clips, k - 1)

C15_RegenerationReusesReferences ==
  [][ \A i \in 0 .. (MaxShots - 1) :
        (handleRegenerateShot(i) /\ dispatchReferences # NoDispatch)
          => regenerateShotReq'.characterReferences = dispatchReferences
    ]_vars

\* ---- C16
\* every job of the list is succeeded at the provider
EveryJobSucceeded(taskIds, status) ==
  \A k \in 1..Len(taskIds) : status[taskIds[k]] = "succeed"

\* the answer of a poll is delivered and shown
pollShown(p) == pollDone(p) /\ ~p.cancelled

\* C16 as claimed: the aggregate of a status poll is true if and only if
\* every tracked job is succeeded, for every set of tracked job ids and every
\* combination of job statuses; the merge-after-tasks action is offered
\* exactly when it is true.
C16_AllSucceededIffEveryJob ==
  [][ /\ ~videoResult.isNull
           => (getKlingTaskStatus(videoResult.task_ids, jobStatus).all_succeed
                 <=> EveryJobSucceeded(videoResult.task_ids, jobStatus))
      /\ \A p \in pollReqs :
           pollShown(p) => (concatAfterKlingOffered' <=> p.all_succeed)
    ]_vars

\* C16 as amended: the same, for every non-empty set of tracked job ids.
C16_AllSucceededIffEveryJobOfSome ==
  [][ /\ (~videoResult.isNull /\ Len(videoResult.task_ids) > 0)
           => (getKlingTaskStatus(videoResult.task_ids, jobStatus).all_succeed
                 <=> EveryJobSucceeded(videoResult.task_ids, jobStatus))
      /\ \A p \in pollReqs :
           pollShown(p) => (concatAfterKlingOffered' <=> p.all_succeed)
    ]_vars

\* a poll of two jobs was shown and the merge is offered, while the
\* provider has both jobs succeeded
C16_Witness ==
  /\ concatAfterKlingOffered
  /\ Len(klingStatusItems.items) = 2
  /\ EveryJobSucceeded(videoResult.task_ids, jobStatus)

\* ---- C17
\* the job ids a poll in flight asks for
TaskIdsOf(items) == [k \in 1..Len(items) |-> items[k].task_id]

\* the polls in flight whose answer will be shown
LivePolls(polls) == { p \in polls : ~p.cancelled }

\* C17: stopping the poll loop sends nothing that affects provider-side
\* jobs, and a later session that loads the saved task resumes polling with
\* exactly the persisted job ids, for as long as no merged artifact exists.
C17_StopAndResumePolling ==
  [][ /\ remount
           => /\ jobStatus' = jobStatus
              /\ LivePolls(pollReqs') = {}
      /\ loadTask
           => IF Len(videoResult'.task_ids) > 0 /\ ~videoResult'.merged_download_url.isSet
              THEN /\ Cardinality(LivePolls(pollReqs')) = 1
                   /\ \A p \in LivePolls(pollReqs') :
                        TaskIdsOf(p.items) = videoResult'.task_ids
              ELSE LivePolls(pollReqs') = {}
      /\ (pollTick /\ ~videoResult.merged_download_url.isSet)
           => \A p \in LivePolls(pollReqs') : TaskIdsOf(p.items) = videoResult.task_ids
    ]_vars

\* a second session polls the two jobs of the task it loaded
C17_Witness ==
  /\ session = 2
  /\ Len(videoResult.task_ids) = 2
  /\ ~videoResult.merged_download_url.isSet
  /\ \E p \in LivePolls(pollReqs) : TaskIdsOf(p.items) = videoResult.task_ids
  /\ ~klingStatusItems.isNull

\* ---- C18
\* a drop on the video track or a removal from it
mutationStep ==
  \/ dropStep
  \/ \E k \in 1 .. (MaxShots + MaxUploads) : handleRemoveClip(k)

\* C18: timeline mutations issued one after another (two drops, or a drop
\* and a remove) are applied as discrete serialized operations: each is
\* computed from the order left by the previous one, so no mutation is lost
\* or partially applied.
C18_MutationsAreSerialized ==
  [][ (mutationStep /\ ~timelineOrder.isNull)
        => \A clips \in { mergedVideoClips } : OrderOfClips(clips) = timelineOrder.v
    ]_vars

\* ---- C19
\* the clip shows an existing position of the storyboard and of the URI list
RefersToLiveShot(clip) ==
  /\ InRange0(effectiveStoryboard, clip.segmentIndex)
  /\ InRange0(urls, clip.segmentIndex)

\* C19: in every reachable state each video-track clip that has a
\* segmentIndex (uploaded clips carry -1 for none) refers to an existing
\* position of the current storyboard and segment-URI list, including after
\* handleDeleteShot when a timeline order was stored earlier.
C19_ClipsReferToLiveShots ==
  \A clips \in { mergedVideoClips } :
    \A k \in 1..Len(clips) :
      clips[k].segmentIndex # -1 => RefersToLiveShot(clips[k])

\* a shot was deleted after an order was stored; the stored order is as long
\* as the URI list and names a position that exists no more
C19_Witness ==
  /\ ~storyboardOverride.isNull
  /\ ~timelineOrder.isNull
  /\ Len(timelineOrder.v) = Len(urls)
  /\ \E k \in 1..Len(timelineOrder.v) : timelineOrder.v[k] >= Len(urls)
  /\ Len(mergedVideoClips) >= 1

\* ---- C20
\* the remove button of the k-th of the track's clips, which shows no segment
removeUploadedClipStep(clips, k) ==
  /\ k \in 1..Len(clips)
  /\ clips[k].segmentIndex < 0
  /\ handleRemoveClip(k)

\* mergedVideoClips of the given URIs, storyboard, stored order and uploads
MergedClipsOf(segs, storyboard, order, uploaded) ==
  SortByStart(TimelineClipsOf(segs, storyboard, order) \o uploaded)

\* C20: removing an uploaded clip (one without a live shot mapping) simply
\* drops that clip: the track shows its other clips as before, and the
\* storyboard, the segment-URI list and the order of the generation-derived
\* clips are unchanged.
C20_RemoveUploadedClipOnlyDropsIt ==
  [][ \A before \in { mergedVideoClips } :
        \A k \in 1 .. (MaxShots + MaxUploads) :
          removeUploadedClipStep(before, k)
            => \A segs \in { urls' } :
                 \A storyboard \in { effectiveStoryboard' } :
                   \A order \in { timelineOrder' } :
                     \A uploaded \in { uploadedVideoClips' } :
                       /\ MergedClipsOf(segs, storyboard, order, uploaded)
                            = ClipsWithoutId(before, before[k].id)
                       /\ storyboard = effectiveStoryboard
                       /\ segs = urls
                       /\ OrderOfClips(TimelineClipsOf(segs, storyboard, order))
                            = OrderOfClips(timelineClips)
    ]_vars

\* an uploaded clip was dropped among two generated clips in a stored order
\* and then removed
C20_Witness ==
  /\ uploadCount = 1
  /\ uploadedVideoClips = << >>
  /\ ~timelineOrder.isNull
  /\ OrderOfClips(mergedVideoClips) = << 1, 0 >>

\* ---- C21
\* the start of a regeneration, or the arrival of its answer
regenerationStep ==
  \/ \E i \in 0 .. (MaxShots - 1) : handleRegenerateShot(i)
  \/ handleRegenerateShotDone
  \/ handleRegenerateShotFailed

\* C21: regenerating one shot (its start, success or failure) leaves the
\* set of tracked job ids and the statuses of all other shots' jobs
\* unchanged, and polling of the other jobs continues undisturbed.
C21_RegenerationLeavesOtherJobs ==
  [][ regenerationStep
        => /\ videoResult'.task_ids = videoResult.task_ids
           /\ DOMAIN jobStatus' = DOMAIN jobStatus
           /\ \A t \in DOMAIN jobStatus :
                t # regenerateShotReq.uid /\ t # regenerateShotReq'.uid
                  => jobStatus'[t] = jobStatus[t]
           /\ klingStatusItems' = klingStatusItems
           /\ PollActive(videoResult') = PollActive(videoResult)
           /\ LivePolls(pollReqs') = LivePolls(pollReqs)
    ]_vars

\* a shot of a task with two tracked jobs was regenerated while a poll of
\* the two jobs is in flight and their statuses are shown
C21_Witness ==
  /\ Len(videoResult.task_ids) = 2
  /\ \E k \in 1..Len(urls) : Regenerated(urls, effectiveStoryboard, k)
  /\ \E p \in LivePolls(pollReqs) : TaskIdsOf(p.items) = videoResult.task_ids
  /\ ~klingStatusItems.isNull

\* ---- C22
\* the merge request being sent has the segment URIs and the timeline order
\* of the call that produced the last artifact
sameInputsAsLastMerge ==
  /\ lastArtifact.made
  /\ lastArtifact.urls = urls
  /\ lastArtifact.order = concatOrder

OneClipCovering(track, sec) ==
  /\ Len(track.clips) = 1
  /\ track.clips[1].startAtSec = 0
  /\ track.clips[1].durationSec >= sec

AudioFrame(before, after, trackId, clipsBefore, clipsAfter) ==
  /\ Len(after) = Len(before)
  /\ \A k \in 1..Len(before) :
       IF before[k].id = trackId
       THEN after[k].id = trackId /\ after[k].clips = before[k].clips
       ELSE after[k] = before[k]
  /\ clipsAfter = clipsBefore

\* C24: changing an audio track's volume or mute flag is a pure property
\* update: the track has the new volume or the toggled mute flag, while the
\* video-track order, every clip's start offset and duration, and the other
\* audio tracks are unchanged, and the volume stays within [0,1].
C24_AudioPropsArePureUpdate ==
  [][ \A trackId \in AudioTrackIds :
        \A before \in { mergedAudioTracks } :
          \A after \in { mergedAudioTracks' } :
            /\ \A volume \in Volumes :
                 handleVolumeChange(trackId, volume)
                   => /\ AudioTrackById(after, trackId).volume = volume
                      /\ AudioTrackById(after, trackId).volume \in 0..100
                      /\ AudioTrackById(after, trackId).muted
                           = AudioTrackById(before, trackId).muted
                      /\ AudioFrame(before, after, trackId,
                                    mergedVideoClips, mergedVideoClips')
            /\ handleMuteToggle(trackId)
                 => /\ AudioTrackById(after, trackId).muted
                         = ~AudioTrackById(before, trackId).muted
                    /\ AudioTrackById(after, trackId).volume
                         = AudioTrackById(before, trackId).volume
                    /\ AudioFrame(before, after, trackId,
                                  mergedVideoClips, mergedVideoClips')
    ]_vars

\* ------------------------------------------------------------------- C25
\* whether a text was typed for the shot, and whether it has characters
\* other than white space
EditGiven(shot) == shot.index \in DOMAIN storyboardPromptEdits

EditOf(shot) == storyboardPromptEdits[shot.index]

\* C25: a regeneration of a shot renders with the text typed in the shot's
\* prompt box, stripped, when one was typed and it is not blank, and with
\* the shot's original prompt otherwise; a blank or white-space-only text
\* never replaces the original prompt.
C25_RegenerationPrompt ==
  [][ \A i \in 0 .. (MaxShots - 1) :
        handleRegenerateShot(i) =>
          LET shot == At0(effectiveStoryboard, i)
          IN  PromptUsed(regenerateShotReq') =
                IF EditGiven(shot) /\ EditOf(shot).text # 0
                THEN [ws |-> FALSE, text |-> EditOf(shot).text]
                ELSE [ws |-> FALSE, text |-> 500 + shot.uid] ]_vars

\* a regeneration is in flight for a shot whose prompt box holds white space
\* only, after a deletion moved the edits, while another shot holds a text:
\* the request carries no override
C25_Witness ==
  /\ regenerateShotReq.active
  /\ ~storyboardOverride.isNull
  /\ regenerateShotReq.override_t2v_prompt = << >>
  /\ \E k, m \in 1..Len(effectiveStoryboard) :
       /\ effectiveStoryboard[k].uid = regenerateShotReq.uid
       /\ EditGiven(effectiveStoryboard[k])
       /\ EditOf(effectiveStoryboard[k]).text = 0
       /\ EditGiven(effectiveStoryboard[m])
       /\ EditOf(effectiveStoryboard[m]).text = 900

\* ------------------------------------------------------------------- C26
\* C26: whenever the storyboard of a dispatch, of any length, comes with a
\* reference image, the mode selected is the subject-reference mode,
\* whatever the recommendation is and whether or not there is one.
C26_ReferenceSelectsSubjectMode ==
  (videoMode.made /\ videoMode.reference) => videoMode.video_mode = "s2v_multi"

\* a storyboard of two or more shots was dispatched with a reference image,
\* the recommendation named another mode, and s2v_multi was selected
C26_Witness ==
  /\ videoMode.made
  /\ videoMode.reference
  /\ videoMode.shots >= 2
  /\ videoMode.advisory = "i2v_multi"
  /\ videoMode.video_mode = "s2v_multi"

\* ------------------------------------------------------------------- C27
\* C27: when the recommendation is unavailable, the selection still yields
\* a mode, and for a storyboard of several shots without a reference image
\* it is image-to-video per shot when the shots prefer it and multi-shot
\* text-to-video otherwise (so for 3 such shots with no preference: t2v_multi).
C27_UnavailableAdvisoryFallsBack ==
  (videoMode.made /\ videoMode.advisory = "unavailable") =>
    /\ videoMode.video_mode \in VideoModes
    /\ (~videoMode.reference /\ videoMode.shots > 1) =>
         videoMode.video_mode = (IF videoMode.prefers THEN "i2v_multi" ELSE "t2v_multi")

\* three shots, no reference image, the recommendation unavailable: both
\* outcomes of the rule table for several shots are selections that happen
C27_Witness ==
  /\ videoMode.made
  /\ videoMode.advisory = "unavailable"
  /\ ~videoMode.reference
  /\ videoMode.shots = 3
  /\ videoMode.prefers
  /\ videoMode.video_mode = "i2v_multi"

\* ------------------------------------------------------------------- C28
\* the rule table, as the mode it gives for a number of shots and a preference
RuleTableMode(shots, prefers) ==
  CHOOSE m \in VideoModes :
    /\ m = "t2v_single" <=> shots <= 1
    /\ m = "i2v_multi" <=> (shots > 1 /\ prefers)
    /\ m = "t2v_multi" <=> (shots > 1 /\ ~prefers)

\* C28: the mode selected is always one of the five modes; a recommendation
\* is taken only if it is one of the four modes other than the
\* subject-reference mode, and with any other answer (and no reference
\* image) the mode is the one of the rule table.
C28_ModeIsValidated ==
  videoMode.made =>
    /\ videoMode.video_mode \in VideoModes
    /\ videoMode.by = "llm" =>
         /\ videoMode.advisory \in VideoModes \ { "s2v_multi" }
         /\ videoMode.video_mode = videoMode.advisory
    /\ (~videoMode.reference /\ videoMode.advisory \notin VideoModes \ { "s2v_multi" }) =>
         /\ videoMode.by = "rule"
         /\ videoMode.video_mode = RuleTableMode(videoMode.shots, videoMode.prefers)

\* the recommendation came back with a text that names no mode, for several
\* shots without a reference image: the rule table decided
C28_Witness ==
  /\ videoMode.made
  /\ videoMode.advisory = "other"
  /\ ~videoMode.reference
  /\ videoMode.shots >= 2
  /\ videoMode.by = "rule"

\* ------------------------------------------------------------------- C29
\* the jobs of the dispatch that is answered in this step
JobsOfDispatch == { TaskOfShot(fetchVideoReq.storyboard[k]) : k \in 1..Len(fetchVideoReq.storyboard) }

\* the images of the character rows, in the order of the rows
ImagesOfRows == SelectSeq(protagonists, LAMBDA dataUrl : dataUrl # 0)

BadgeOfStatus(status) ==
  CASE status = "succeed" -> "isSuccess"
    [] status = "failed" -> "isFailed"
    [] status = "processing" -> "isProcessing"

C31_OneMergeInFlight ==
  [][ /\ ~(concatFromSegmentsReq'.active /\ concatAfterKlingReq'.active)
      /\ handleConcatConfirmDone =>
           videoResult.merged_download_url = concatFromSegmentsReq.closureVideo.merged_download_url
    ]_vars

\* ------------------------------------------------------------------- C32
\* the creation (submission) a shot or a segment URI was produced for
SubmissionOfShot(shot) == shot.uid \div 10

SubmissionOfUri(u) == (u % 100) \div 10

\* C32: starting a new creation leaves no per-shot state of the previous
\* storyboard in effect, so every merge request pairs a storyboard with
\* segment URIs that were rendered for that same creation.
C32_MergeNeverMixesCreations ==
  concatFromSegmentsReq.active =>
    \A i \in 1..Len(concatFromSegmentsReq.segment_urls) :
      \A j \in 1..Len(concatFromSegmentsReq.storyboard) :
        SubmissionOfUri(concatFromSegmentsReq.segment_urls[i])
          = SubmissionOfShot(concatFromSegmentsReq.storyboard[j])

\* ------------------------------------------------------------------- C33
\* the job at position k (1-based) of ids is the one dispatched for the shot
\* at position k of storyboard
JobOfSameShot(ids, storyboard, k) ==
  k <= Len(ids) => ids[k] = TaskOfShot(storyboard[k])

\* C33: after a shot was deleted while jobs are tracked, the job status shown
\* next to each remaining shot, and the job the merge-after-tasks call uses
\* for it, is the job that was dispatched for that same shot.
C33_RemainingShotsKeepTheirJob ==
  /\ ~klingStatusItems.isNull =>
       \A k \in 1..Len(effectiveStoryboard) :
         JobOfSameShot(TaskIdsOf(klingStatusItems.items), effectiveStoryboard, k)
  /\ concatAfterKlingReq.active =>
       \A k \in 1..Len(concatAfterKlingReq.storyboard) :
         JobOfSameShot(concatAfterKlingReq.task_ids, concatAfterKlingReq.storyboard, k)

\* ------------------------------------------------------------------- C34
\* the text typed for the shot of index, if there is one
EditAt(edits, index) == IF index \in DOMAIN edits THEN << edits[index] >> ELSE << >>

\* after positionIndex was removed from list, every shot of newList has the
\* edit and the characters that the same shot had under its old index
OwnEditsAndCharacters(list, newList, positionIndex, edits, newEdits, selections, newSelections) ==
  \A j \in 1..Len(newList) :
    /\ EditAt(newEdits, newList[j].index)
         = EditAt(edits, OldIdx(list, positionIndex, j))
    /\ SelectedCharactersFor(newSelections, newList[j].index)
         = SelectedCharactersFor(selections, OldIdx(list, positionIndex, j))

\* C34: after a shot is deleted every remaining shot keeps exactly its own
\* prompt edit and character selections under its new index; none inherits
\* those of another shot and a shot that had none still has none.
C34_DeleteKeepsOwnEditsAndCharacters ==
  [][ \A positionIndex \in 0 .. MaxShots - 1 :
        handleDeleteShot(positionIndex) =>
          \A newList \in { effectiveStoryboard' },
             newEdits \in { storyboardPromptEdits' },
             newSelections \in { shotCharacterNamesList' } :
            OwnEditsAndCharacters(effectiveStoryboard, newList, positionIndex,
                                  storyboardPromptEdits, newEdits,
                                  shotCharacterNamesList, newSelections)
    ]_vars

\* ------------------------------------------------------------------- C35
\* C35: a poll response that arrives after its polling round was cancelled
\* never updates the displayed job statuses: the statuses a step puts on
\* display are those of the job ids tracked now, with no merged artifact;
\* once a merged artifact exists no poll is live and no status is displayed.
C35_CancelledPollsShowNothing ==
  [][ /\ \A p \in pollReqs :
           (p.cancelled /\ pollDone(p)) => klingStatusItems' = klingStatusItems
      /\ \A shown \in { klingStatusItems' }, video \in { videoResult' } :
           /\ (shown # klingStatusItems /\ ~shown.isNull)
                => /\ PollActive(video)
                   /\ TaskIdsOf(shown.items) = video.task_ids
           /\ (~video.isNull /\ video.merged_download_url.isSet)
                => /\ shown.isNull
                   /\ LivePolls(pollReqs') = {}
    ]_vars

\* a new creation was started while a poll of the jobs tracked before is
\* still awaited: it is cancelled and no status is on display
C35_Witness ==
  /\ submitCount > 0
  /\ videoResult.isNull
  /\ klingStatusItems.isNull
  /\ \E p \in pollReqs : p.cancelled /\ Len(p.items) > 1

\* ------------------------------------------------------------------- C36
\* C36: every handleSubmit eventually ends with step 1 no longer running,
\* for every outcome of the content request.
C36_SubmitLeavesRunning ==
  (step1Status = "running") ~> (step1Status # "running")

\* ------------------------------------------------------------------- C37
\* the shot a segment URI was rendered for, by its uid
ShotOfUri(u) == u % 100

\* C37: in every merge request sent by handleConcatConfirm the k-th segment
\* URI and the k-th storyboard entry belong to the same original shot, and
\* the storyboard entries are renumbered 1..N in the merge order.
C37_SegmentsPairedWithTheirShots ==
  [][ (handleConcatConfirm /\ concatFromSegmentsReq'.active) =>
        \A req \in { concatFromSegmentsReq' } :
          /\ Len(req.segment_urls) = Len(req.storyboard)
          /\ \A k \in 1..Len(req.storyboard) :
               /\ ShotOfUri(req.segment_urls[k]) = req.storyboard[k].uid
               /\ req.storyboard[k].index = k
    ]_vars

\* the pairing the handler makes by itself: the k-th URI and the k-th entry
\* are read at the same position origIdx of the segment list and of the
\* storyboard, and the entries are numbered 1..N
PairedByOrigIdx ==
  [][ (handleConcatConfirm /\ concatFromSegmentsReq'.active) =>
        \A req \in { concatFromSegmentsReq' } :
          /\ Len(req.segment_urls) = Len(req.storyboard)
          /\ \A k \in 1..Len(req.storyboard) :
               /\ req.segment_urls[k] = At0(urls, req.srcIdx[k])
               /\ req.storyboard[k].uid = At0(effectiveStoryboard, req.srcIdx[k]).uid
               /\ req.storyboard[k].index = k
    ]_vars

\* ------------------------------------------------------------------- C38
\* C38: when a merge request fails, the video result is kept as it was (no
\* merged URI is set or changed), an error is recorded and the in-progress
\* flag of that merge is cleared, so that the merge can be retried.
C38_FailedMergeKeepsResult ==
  [][ /\ handleConcatConfirmFailed
           => /\ videoResult' = videoResult
              /\ error' # "none"
              /\ ~concatInProgress'
              /\ ~concatFromSegmentsReq'.active
      /\ handleConcatAfterKlingFailed
           => /\ videoResult' = videoResult
              /\ error' # "none"
              /\ ~concatAfterKlingInProgress'
              /\ ~concatAfterKlingReq'.active
    ]_vars

\* a merge has failed: the error is shown, nothing was merged and the
\* confirm button can be pressed again
C38_Witness ==
  /\ error = "request"
  /\ ~videoResult.isNull
  /\ ~videoResult.merged_download_url.isSet
  /\ previewPanelShown
  /\ ~running
  /\ ~urlsInvalid(urls, effectiveStoryboard)

\* ------------------------------------------------------------------- C39
\* C39: when a regeneration request fails, every segment URI (that of the
\* shot being regenerated included) is unchanged, an error is recorded and
\* the regenerating marker is cleared; at most one regeneration is in
\* flight at any time: none is started while one is awaited, and the marker
\* is set exactly while one is awaited.
C39_FailedRegenerationKeepsSegments ==
  [][ /\ handleRegenerateShotFailed
           => /\ segmentUrls' = segmentUrls
              /\ \A segs \in { segmentUrls' }, video \in { videoResult' } :
                   UrlsOf(segs, video) = urls
              /\ error' # "none"
              /\ regeneratingShotIndex' = -1
      /\ \A i \in 0 .. (MaxShots - 1) :
           handleRegenerateShot(i) => ~regenerateShotReq.active
      /\ regenerateShotReq'.active <=> regeneratingShotIndex' # -1
    ]_vars

\* a regeneration has failed after another one had succeeded: the error is
\* shown, the segment regenerated before is still in place and the
\* regenerate buttons are enabled again
C39_Witness ==
  /\ error = "request"
  /\ regeneratingShotIndex = -1
  /\ ~regenerateShotReq.active
  /\ previewPanelShown
  /\ ~running
  /\ \E k \in 1..Len(segmentUrls) : Regenerated(segmentUrls, effectiveStoryboard, k)

====
